---- MODULE Spec2Model ----
(***************************************************************************)
(* State-machine model of the crawl-and-extract pipeline of the RAG       *)
(* assistant backend (src/src/scraper.py, class WebScraper).              *)
(*                                                                         *)
(* Python str values are TLA+ strings; a character is a string of length  *)
(* one.  Regular expressions are sequences of atoms interpreted by Match. *)
(* A parsed HTML document (what BeautifulSoup builds) is a sequence of    *)
(* element records in document order.                                     *)
(***************************************************************************)
EXTENDS Integers, Sequences, FiniteSets, TLC

(***************************************************************************)
(* Bounds of the model.                                                    *)
(***************************************************************************)
\* max_pages is drawn from 0..MaxPagesBound
MaxPagesBound == 3
\* max_depth is drawn from 0..MaxDepthBound
MaxDepthBound == 2
\* add_texts is called with 0..MaxChunks texts
MaxChunks == 41
\* requests 1..MaxRequests reach /predefined-answer
MaxRequests == 4
\* fragments of a text given to a direct call of the deduplicator: at most
MaxFragments == 3
\* the model streams at most MaxTokens chunks for an answer
MaxTokens == 3

(***************************************************************************)
(* Python str primitives.                                                  *)
(***************************************************************************)
Ch(s, i) == SubSeq(s, i, i)

StrSet(s) == { Ch(s, i) : i \in 1..Len(s) }

UPPER == "ABCDEFGHIJKLMNOPQRSTUVWXYZ"
LOWER == "abcdefghijklmnopqrstuvwxyz"
DIGITS == "0123456789"

UpperSet == StrSet(UPPER)

LowerMap == [c \in UpperSet |-> Ch(LOWER, CHOOSE i \in 1..Len(UPPER) : Ch(UPPER, i) = c)]

\* str.lower() of one character
LowerCh(c) == IF c \in UpperSet THEN LowerMap[c] ELSE c

SetMin(S) == CHOOSE x \in S : \A y \in S : x <= y
SetMax(S) == CHOOSE x \in S : \A y \in S : x >= y

\* the concatenation of the strings parts[lo..hi]
RECURSIVE Cat(_, _, _)
Cat(parts, lo, hi) ==
    IF lo > hi THEN ""
    ELSE IF lo = hi THEN parts[lo]
    ELSE LET mid == (lo + hi) \div 2
         IN  Cat(parts, lo, mid) \o Cat(parts, mid + 1, hi)

\* str.lower()
lower(s) == Cat([i \in 1..Len(s) |-> LowerCh(Ch(s, i))], 1, Len(s))

\* the class \w of re (ASCII letters, digits, underscore)
WordSet == StrSet(UPPER) \cup StrSet(LOWER) \cup StrSet(DIGITS) \cup {"_"}

\* the class \s of re, and the characters str.strip() removes
SpaceSet == {" ", "\n", "\t", "\r"}

\* str.startswith
startswith(s, p) == Len(s) >= Len(p) /\ SubSeq(s, 1, Len(p)) = p

\* str.strip()
strip(s) ==
    LET solid == { i \in 1..Len(s) : Ch(s, i) \notin SpaceSet }
    IN  IF solid = {} THEN "" ELSE SubSeq(s, SetMin(solid), SetMax(solid))

\* str.find(sep) from position p on (1-based); 0 when sep does not occur
find(s, sep, p) ==
    LET hits == { q \in p..(Len(s) - Len(sep) + 1) : SubSeq(s, q, q + Len(sep) - 1) = sep }
    IN  IF hits = {} THEN 0 ELSE SetMin(hits)

\* str.split(sep): the pieces between the leftmost non-overlapping occurrences
RECURSIVE split(_, _)
split(s, sep) ==
    LET p == find(s, sep, 1) IN
    IF p = 0 THEN <<s>>
    ELSE <<SubSeq(s, 1, p - 1)>> \o split(SubSeq(s, p + Len(sep), Len(s)), sep)

\* sep.join(parts)
RECURSIVE join(_, _)
join(sep, parts) ==
    IF parts = <<>> THEN ""
    ELSE IF Len(parts) = 1 THEN parts[1]
    ELSE parts[1] \o sep \o join(sep, Tail(parts))

(***************************************************************************)
(* Regular expressions (module re, flag IGNORECASE).  A pattern is a      *)
(* sequence of atoms: a character class with a repetition range, or one   *)
(* of the zero-width assertions ^, $ and \b.                              *)
(***************************************************************************)
\* a character class cs repeated lo times or more: exactly once, or (many)
\* without upper limit
Atom(cs, lo, many) == [k |-> "set", cs |-> cs, lo |-> lo, many |-> many]

\* a literal string (given in lower case)
Lit(s) == << [k |-> "lit", s |-> s] >>

\* [cs] , \s+ , \s* , c?
Class(cs) == <<Atom(cs, 1, FALSE)>>
SpacePlus == <<Atom(SpaceSet, 1, TRUE)>>
SpaceStar == <<Atom(SpaceSet, 0, TRUE)>>
Opt(c) == <<Atom({c}, 0, FALSE)>>

Bol == <<[k |-> "bol"]>>
Eol == <<[k |-> "eol"]>>
WordBoundary == <<[k |-> "wb"]>>

IsWordAt(s, p) == p >= 1 /\ p <= Len(s) /\ Ch(s, p) \in WordSet

Min(a, b) == IF a < b THEN a ELSE b

\* the atoms pat[i..] match s from position p on
RECURSIVE Match(_, _, _, _)
Match(pat, i, s, p) ==
    IF i > Len(pat) THEN TRUE
    ELSE LET a == pat[i] IN
         CASE a.k = "bol" -> p = 1 /\ Match(pat, i + 1, s, p)
           [] a.k = "eol" -> p = Len(s) + 1 /\ Match(pat, i + 1, s, p)
           [] a.k = "wb"  -> IsWordAt(s, p - 1) # IsWordAt(s, p) /\ Match(pat, i + 1, s, p)
           [] a.k = "lit" ->
                /\ p + Len(a.s) - 1 <= Len(s)
                /\ \A j \in 1..Len(a.s) : LowerCh(Ch(s, p + j - 1)) = Ch(a.s, j)
                /\ Match(pat, i + 1, s, p + Len(a.s))
           [] a.k = "set" ->
                \E n \in a.lo..Min(IF a.many THEN Len(s) ELSE 1, Len(s) - p + 1) :
                    /\ \A j \in 0..(n - 1) : LowerCh(Ch(s, p + j)) \in a.cs
                    /\ Match(pat, i + 1, s, p + n)

\* re.search(pat, s, re.IGNORECASE) is not None
search(pat, s) == \E p \in 1..(Len(s) + 1) : Match(pat, 1, s, p)

(***************************************************************************)
(* urllib.parse.                                                           *)
(***************************************************************************)
SchemeChars == StrSet(UPPER) \cup StrSet(LOWER) \cup StrSet(DIGITS) \cup {"+", "-", "."}
Letters == StrSet(UPPER) \cup StrSet(LOWER)

\* schemes urljoin resolves relative references for (urllib.parse.uses_relative)
USES_RELATIVE == {"", "http", "https", "ftp", "file"}

\* position of the colon ending the scheme of url, 0 when it has none
SchemeEnd(url) ==
    LET c == find(url, ":", 1) IN
    IF /\ c > 1
       /\ Ch(url, 1) \in Letters
       /\ \A i \in 1..(c - 1) : Ch(url, i) \in SchemeChars
    THEN c ELSE 0

\* end of the network location that starts at position p of s: the position
\* before the first of / ? #
NetlocEnd(s, p) ==
    LET ends == { q \in p..Len(s) : Ch(s, q) \in {"/", "?", "#"} }
    IN  IF ends = {} THEN Len(s) ELSE SetMin(ends) - 1

\* urlsplit raises ValueError("Invalid IPv6 URL") when the network location
\* has one of the brackets [ ] without the other
UrlRaises(url) ==
    LET c    == SchemeEnd(url)
        rest == SubSeq(url, c + 1, Len(url))
        nl   == SubSeq(rest, 3, NetlocEnd(rest, 3))
    IN  startswith(rest, "//") /\ (find(nl, "[", 1) # 0) # (find(nl, "]", 1) # 0)

\* urlparse(url): scheme (lowercased), netloc, and the rest (path onwards)
urlparse(url) ==
    LET c    == SchemeEnd(url)
        rest == SubSeq(url, c + 1, Len(url))
        e    == NetlocEnd(rest, 3)
    IN  IF startswith(rest, "//")
        THEN [scheme |-> lower(SubSeq(url, 1, c - 1)),
              netloc |-> SubSeq(rest, 3, e),
              path   |-> SubSeq(rest, e + 1, Len(rest))]
        ELSE [scheme |-> lower(SubSeq(url, 1, c - 1)), netloc |-> "", path |-> rest]

\* urlunparse
urlunparse(scheme, netloc, path) ==
    (IF scheme # "" THEN scheme \o ":" ELSE "")
        \o (IF netloc # "" THEN "//" \o netloc ELSE "")
        \o path

\* position of the last "/" of s[1..p], 0 when it has none
LastSlash(s, p) ==
    LET slashes == { q \in 1..p : Ch(s, q) = "/" }
    IN  IF slashes = {} THEN 0 ELSE SetMax(slashes)

\* urljoin(base, url), for references whose path is not empty and has no
\* dot segments
urljoin(base, url) ==
    LET b == urlparse(base)
        u == urlparse(url)
        scheme == IF SchemeEnd(url) = 0 THEN b.scheme ELSE u.scheme
    IN  IF base = "" THEN url
        ELSE IF url = "" THEN base
        ELSE IF scheme # b.scheme \/ scheme \notin USES_RELATIVE THEN url
        ELSE IF u.netloc # "" THEN urlunparse(scheme, u.netloc, u.path)
        ELSE IF startswith(u.path, "/") THEN urlunparse(scheme, b.netloc, u.path)
        ELSE urlunparse(scheme, b.netloc,
                        (IF b.netloc # "" /\ LastSlash(b.path, Len(b.path)) = 0
                         THEN "/"
                         ELSE SubSeq(b.path, 1, LastSlash(b.path, Len(b.path))))
                        \o u.path)

(***************************************************************************)
(* URL filter.                                                             *)
(***************************************************************************)
BLOCKED_PATTERNS ==
    << Lit("/contact"), Lit("/contacts"), Lit("/login"), Lit("/signup"),
       Lit("/register"), Lit("/logout"), Lit("/cart"), Lit("/checkout"),
       Lit("/feedback"), Class({"?", "&"}) \o Lit("feedback="),
       Lit("/support"), Lit("/help"), Lit("mailto:"), Lit("tel:") >>

\* any(re.search(p, s, re.IGNORECASE) for p in patterns)
SearchAny(patterns, s) == \E i \in 1..Len(patterns) : search(patterns[i], s)

_is_same_domain_Loose(base, url) ==
    /\ ~UrlRaises(base) /\ ~UrlRaises(url)
    /\ lower(urlparse(base).netloc) = lower(urlparse(url).netloc)

\* urlparse raising is caught: return False
_is_same_domain(base, url) ==
    /\ ~UrlRaises(base) /\ ~UrlRaises(url)
    /\ urlparse(base).netloc = urlparse(url).netloc

_is_blocked_BuiltinOnly(url, cfg) == SearchAny(BLOCKED_PATTERNS, url)

_is_blocked(url, cfg) == SearchAny(BLOCKED_PATTERNS \o cfg.exclude_url_patterns, url)

(***************************************************************************)
(* Content pipeline: sanitize, extract, filter, dedupe.                    *)
(*                                                                         *)
(* An element of a document is a record                                    *)
(*   tag, id, class, role : the element's name and attributes ("" absent) *)
(*   toggle, target, src  : data-bs-toggle, data-bs-target/data-target,   *)
(*                          src                                            *)
(*   href                 : the href of an anchor ("" absent)             *)
(*   anc                  : the tags of its ancestors                     *)
(*   text                 : its text node                                 *)
(***************************************************************************)
CONTENT_BLOCK_DEFAULTS ==
    << WordBoundary \o Lit("feedback") \o WordBoundary,
       Lit("how") \o SpacePlus \o Lit("can") \o SpacePlus \o Lit("we") \o SpacePlus
           \o Lit("help") \o SpacePlus \o Lit("you") \o Opt("?"),
       Lit("help") \o SpacePlus \o Lit("us") \o SpacePlus \o Lit("improve"),
       Lit("chat") \o SpacePlus \o Lit("with") \o SpacePlus \o Lit("us"),
       Lit("subscribe") \o SpacePlus \o Lit("to") \o SpacePlus \o Lit("our")
           \o SpacePlus \o Lit("newsletter"),
       Lit("accept") \o SpacePlus \o Lit("cookies"),
       Lit("cookie") \o SpacePlus \o Lit("preferences"),
       Lit("feedbackform"),
       Bol \o Lit("solutions") \o Eol,
       Bol \o Lit("learn") \o SpaceStar \o Lit("more") \o Eol,
       Bol \o Lit("countries") \o Eol,
       Bol \o Lit("careers") \o Eol,
       \* ^news(room)?$ is the two alternatives ^news$ and ^newsroom$
       Bol \o Lit("news") \o Eol,
       Bol \o Lit("newsroom") \o Eol,
       Bol \o Lit("contact") \o Eol,
       Lit("a") \o SpacePlus \o Lit("world") \o SpacePlus \o Lit("of") \o SpacePlus
           \o Lit("possibilities") >>

\* tags decomposed with everything below them
CHROME_TAGS == {"script", "style", "noscript", "footer", "header", "nav"}

\* (header|nav|menu|top-bar|breadcrumb|breadcrumbs|hamb)
NAV_NAMES ==
    << Lit("header"), Lit("nav"), Lit("menu"), Lit("top-bar"), Lit("breadcrumb"),
       Lit("breadcrumbs"), Lit("hamb") >>

\* (feedback|help)
WIDGET_NAMES == << Lit("feedback"), Lit("help") >>

Contains(s, sub) == find(s, sub, 1) # 0

\* the element is decomposed by one of the rules of _clean_html
Decomposed(n) ==
    \/ n.tag \in CHROME_TAGS
    \/ \E i \in 1..Len(n.anc) : n.anc[i] \in CHROME_TAGS
    \/ n.id # "" /\ search(Lit("footer"), n.id)
    \/ n.class # "" /\ search(Lit("footer"), n.class)
    \/ n.role # "" /\ search(Lit("contentinfo"), n.role)
    \/ n.role # "" /\ search(Lit("navigation"), n.role)
    \/ n.id # "" /\ SearchAny(NAV_NAMES, n.id)
    \/ n.class # "" /\ SearchAny(NAV_NAMES, n.class)
    \/ /\ n.toggle # "" /\ search(Lit("modal"), n.toggle)
       /\ Contains(lower(n.target), "feedback") \/ Contains(lower(n.target), "help")
    \/ /\ n.tag = "img" /\ n.src # ""
       /\ Contains(lower(n.src), "feedback") \/ Contains(lower(n.src), "help-text")
    \/ n.id # "" /\ SearchAny(WIDGET_NAMES, n.id)
    \/ n.class # "" /\ SearchAny(WIDGET_NAMES, n.class)

\* the document without its non-content elements
_clean_html(html) == SelectSeq(html, LAMBDA n : ~Decomposed(n))

\* the text nodes of a document, in document order
TextNodes(html) ==
    LET withText == SelectSeq(html, LAMBDA n : n.text # "")
    IN  [i \in 1..Len(withText) |-> withText[i].text]

\* soup.get_text(separator='\n')
_extract_text(html) == join("\n", TextNodes(html))

\* re.sub(r"\s+", " ", s): a run of white space becomes its first character,
\* replaced by a space
CollapseSpace(s) ==
    Cat([i \in 1..Len(s) |->
            IF Ch(s, i) \notin SpaceSet THEN Ch(s, i)
            ELSE IF i > 1 /\ Ch(s, i - 1) \in SpaceSet THEN "" ELSE " "],
        1, Len(s))

_filter_text(text, cfg) ==
    LET block_patterns == CONTENT_BLOCK_DEFAULTS \o cfg.block_text_patterns
        parts == split(text, "\n")
        lines == [i \in 1..Len(parts) |-> strip(parts[i])]
        kept  == SelectSeq(lines,
                     LAMBDA ln : ln # "" /\ ~SearchAny(block_patterns, ln))
    IN  strip(CollapseSpace(join(" ", kept)))

\* fragments shorter than this are dropped by the deduplicator
MIN_FRAGMENT_LEN == 30

\* re.sub(r"\W+", "", ln.lower())
signature(ln) ==
    Cat([i \in 1..Len(ln) |-> IF Ch(ln, i) \in WordSet THEN LowerCh(Ch(ln, i)) ELSE ""],
        1, Len(ln))

RECURSIVE DedupeLoop_NoSeenCheck(_, _, _, _)
DedupeLoop_NoSeenCheck(raws, i, seen, out) ==
    IF i > Len(raws) THEN [out |-> out, seen |-> seen]
    ELSE LET ln  == strip(raws[i])
             sig == signature(ln)
         IN  IF Len(ln) < MIN_FRAGMENT_LEN
             THEN DedupeLoop_NoSeenCheck(raws, i + 1, seen, out)
             ELSE DedupeLoop_NoSeenCheck(raws, i + 1, seen \cup {sig}, Append(out, ln))

RECURSIVE DedupeLoop_SeenShort(_, _, _, _)
DedupeLoop_SeenShort(raws, i, seen, out) ==
    IF i > Len(raws) THEN [out |-> out, seen |-> seen]
    ELSE LET ln  == strip(raws[i])
             sig == signature(ln)
         IN  IF sig \in seen THEN DedupeLoop_SeenShort(raws, i + 1, seen, out)
             ELSE IF Len(ln) < MIN_FRAGMENT_LEN
             THEN DedupeLoop_SeenShort(raws, i + 1, seen \cup {sig}, out)
             ELSE DedupeLoop_SeenShort(raws, i + 1, seen \cup {sig}, Append(out, ln))

\* the loop of _dedupe_lines_global over the fragments raws[i..]: the kept
\* fragments and the set of signatures seen afterwards
RECURSIVE DedupeLoop(_, _, _, _)
DedupeLoop(raws, i, seen, out) ==
    IF i > Len(raws) THEN [out |-> out, seen |-> seen]
    ELSE LET ln  == strip(raws[i])
             sig == signature(ln)
         IN  IF Len(ln) < MIN_FRAGMENT_LEN THEN DedupeLoop(raws, i + 1, seen, out)
             ELSE IF sig \in seen THEN DedupeLoop(raws, i + 1, seen, out)
             ELSE DedupeLoop(raws, i + 1, seen \cup {sig}, Append(out, ln))

_dedupe_lines_global_FreshSeen(text, seen) ==
    LET r == DedupeLoop(split(text, ". "), 1, {}, <<>>)
    IN  [text |-> join(". ", r.out), seen |-> seen \cup r.seen]

\* _dedupe_lines_global(text, seen): the returned text and the mutated seen
_dedupe_lines_global(text, seen) ==
    LET r == DedupeLoop(split(text, ". "), 1, seen, <<>>)
    IN  [text |-> join(". ", r.out), seen |-> r.seen]

(***************************************************************************)
(* The inputs of a run: start URLs, configurations and the documents the  *)
(* web may serve.                                                          *)
(***************************************************************************)
El(tag, anc, class, href, text) ==
    [tag |-> tag, anc |-> anc, id |-> "", class |-> class, role |-> "", toggle |-> "",
     target |-> "", src |-> "", href |-> href, text |-> text]

S_WELCOME == "Welcome to the Example Corp knowledge base"
S_BUILD   == "We build assistants that answer questions"
\* S_BUILD written differently, in exactly 50 characters
S_BUILD2  == "WE BUILD ASSISTANTS -- that answer: questions (!!)"
S_ROBOTS  == "Our robots are tested in the field every day"
S_ASK     == "Ask us anything about our product line today"

\* a landing page: a link inside the navigation, two long sentences, a
\* blocked link, the same page linked twice, and a footer
DOC_HOME ==
    << El("a", <<"nav">>, "", "/b", "Products"),
       El("p", <<>>, "", "", S_WELCOME \o ". " \o S_BUILD \o "."),
       El("a", <<>>, "", "/Login", "Sign in"),
       El("a", <<>>, "", "b", "More products"),
       El("a", <<>>, "", "/c", "Robots"),
       El("footer", <<>>, "", "", "(c) Example Corp, all rights reserved") >>

\* repeats a sentence of DOC_HOME and adds two; links to a mail address,
\* another host and (relative) a further page
DOC_B ==
    << El("p", <<>>, "", "", S_BUILD \o ". " \o S_ROBOTS \o "."),
       El("p", <<>>, "", "", S_ASK \o "."),
       El("a", <<>>, "", "mailto:info@a", "Mail us"),
       El("a", <<>>, "", "http://w.a/b", "Partner"),
       El("a", <<>>, "", " d ", "Details") >>

\* one sentence only, with the signature of S_BUILD: 50 characters or fewer
DOC_SHORT ==
    << El("p", <<>>, "", "", S_BUILD2 \o "."),
       El("a", <<>>, "", "HTTP://A/b", "Upper-case host"),
       El("a", <<>>, "", "/c", "Robots") >>

\* nothing but a blocked line and a script
DOC_FEEDBACK ==
    << El("script", <<>>, "", "", "var feedback = 1;"),
       El("div", <<>>, "site-menu", "", S_ROBOTS \o ". " \o S_ASK),
       El("p", <<>>, "", "", " Feedback ") >>

\* an anchor whose href urljoin cannot parse, before a good one
DOC_BROKEN ==
    << El("p", <<>>, "", "", S_ASK \o ".  Short one.\n" \o S_ROBOTS \o "."),
       El("a", <<>>, "", "/c", "Robots"),
       El("a", <<>>, "", "http://[x", "Broken"),
       El("a", <<>>, "", "/e", "Never found") >>

DOCS == {DOC_HOME, DOC_B, DOC_SHORT, DOC_FEEDBACK, DOC_BROKEN}

\* a crawlable start URL, a blocklisted one, one without scheme and host, and
\* one that urlparse rejects
START_URLS == {"http://a", "http://a/login", "a", "http://[a"}

\* config.exclude_url_patterns: none, or one extra pattern
EXCLUDES == { <<>>, <<Lit("/c")>> }

CONFIGS ==
    [max_pages : 0..MaxPagesBound, max_depth : 0..MaxDepthBound,
     exclude_url_patterns : EXCLUDES, block_text_patterns : {<<>>}]

(***************************************************************************)
(* State of one crawl run.                                                 *)
(***************************************************************************)
VARIABLES
    pc,               \* "call": crawl is entered; "loop": at the head of its while
                      \* loop; "done": it returned; "raised": it raised
    start_url,        \* argument of crawl
    cfg,              \* the ScrapeConfig of the run
    visited,          \* set of URLs
    queue,            \* deque of (url, depth)
    texts,            \* list of cleaned texts
    metas,            \* list of {source_url, cleaned_html}
    seen_signatures,  \* set of signatures
    fetchLog,         \* the calls of _fetch so far: url, depth tag, outcome and the
                      \* html returned (<<>> when it raised)
    discovered,       \* the links enqueued so far: (page, link)
    sleeps            \* the calls of time.sleep(cfg.delay_seconds) so far: each is
                      \* recorded as the number of _fetch calls made before it

\* the locals of one crawl invocation (with its two history variables)
crawlVars ==
    <<pc, start_url, cfg, visited, queue, texts, metas, seen_signatures, fetchLog, discovered,
      sleeps>>

(***************************************************************************)
(* State of the application around the crawl: the caller scrape_and_index, *)
(* the vector index behind VectorStore.add_texts, a second invocation of   *)
(* crawl on the same WebScraper, the iterator predefined_cycle, and a      *)
(* direct call of the deduplicator.                                        *)
(***************************************************************************)
VARIABLES
    sai,              \* scrape_and_index: "none" (crawl was called directly), "crawl"
                      \* (inside self.crawl), "returned" or "raised"
    index,            \* argument index of scrape_and_index
    include_text,     \* argument include_text of scrape_and_index
    add_texts_calls,  \* the calls of vector_store.add_texts so far: texts, metadata
    upserted,         \* the vectors upserted into the index so far, in order
    payload,          \* <<the dict scrape_and_index returned>>, <<>> before it returns
    at_pc,            \* a direct call of add_texts: "none", "call", "returned", "raised"
    at_args,          \* its arguments: texts, metadata
    phase,            \* several invocations of crawl on the one scraper: "none", or
                      \* "solo1", "solo2" (an invocation runs alone), "conc" (two
                      \* invocations run interleaved)
    inputs,           \* the (start_url, cfg) of the two invocations
    running,          \* the invocation (1 or 2) whose locals the crawl variables hold
    other,            \* the locals of the suspended invocation
    solo,             \* the results the invocations returned when they ran alone
    cycle_index,      \* predefined_cycle: the index of the item next() returns next
    requests,         \* the requests to /predefined-answer: where each handler
                      \* stands, the item it drew and its response
    served,           \* the calls of next(predefined_cycle) so far: request, item
    dd_pc,            \* a direct call of _dedupe_lines_global(text, seen): "none",
                      \* "call", "once" (it returned), "twice" (called again with the
                      \* same text and the same set, it returned again)
    dd_text,          \* its argument text
    dd_seen,          \* the set its argument seen refers to
    dd_old_seen,      \* what that set held before the first call
    dd_returned       \* the strings the calls returned, in order

saiVars == <<sai, index, include_text, add_texts_calls, upserted, payload>>

addTextsVars == <<at_pc, at_args>>

concVars == <<phase, inputs, running, other, solo>>

cycleVars == <<cycle_index, requests, served>>

dedupeVars == <<dd_pc, dd_text, dd_seen, dd_old_seen, dd_returned>>

(***************************************************************************)
(* State of one request to /chat/stream: the generator that                *)
(* ChatManager.stream_response returns, its consumer and the checkpoint of *)
(* the session.                                                            *)
(***************************************************************************)
VARIABLES
    gen,               \* where the generator stands: "none", "created"
                       \* (stream_response returned it), "loop" (in the for loop of
                       \* lines 201-228), "end" (after the loop, lines 231-244),
                       \* "returned", "raised" (an exception left it), "closed"
    suspended,         \* it waits for its consumer: not started yet, or at a yield
    prior_messages,    \* local of stream_response: the messages of the session
    llm_stream,        \* the contents of the chunks self.llm.stream yields
    consumed,          \* how many of them the for loop has taken
    collected_parts,   \* local of generator
    buffer,            \* local of generator
    last_emitted_char, \* local of generator
    pending,           \* the fragments the current iteration has still to yield
    yielded,           \* the fragments yielded so far
    messages,          \* the messages in the checkpoint of the session
    generations,       \* how often the model was asked to generate an answer
    persist_raised     \* self.workflow.invoke of line 237 raised

streamVars ==
    <<gen, suspended, prior_messages, llm_stream, consumed, collected_parts, buffer,
      last_emitted_char, pending, yielded, messages, generations, persist_raised>>

appVars == <<saiVars, addTextsVars, concVars, cycleVars, dedupeVars, streamVars>>

vars == <<crawlVars, appVars>>

\* one invocation of crawl only
NoOtherCrawl ==
    phase = "none" /\ inputs = <<>> /\ running = 1 /\ other = <<>> /\ solo = <<>>

\* predefined_cycle = cycle(PREDEFINED_ANSWERS) (app.py line 74), and no
\* request to /predefined-answer
NoRequests == cycle_index = 0 /\ requests = <<>> /\ served = <<>>

\* _dedupe_lines_global is called by crawl only
NoDedupe ==
    dd_pc = "none" /\ dd_text = "" /\ dd_seen = {} /\ dd_old_seen = {} /\ dd_returned = <<>>

\* no request to /chat/stream
NoStream ==
    /\ gen = "none" /\ suspended = FALSE /\ prior_messages = <<>>
    /\ llm_stream = <<>> /\ consumed = 0
    /\ collected_parts = <<>> /\ buffer = "" /\ last_emitted_char = ""
    /\ pending = <<>> /\ yielded = <<>>
    /\ messages = <<>> /\ generations = 0 /\ persist_raised = FALSE

\* crawl is called directly and nothing else goes on in the process
AppIdle ==
    /\ sai = "none" /\ index = FALSE /\ include_text = TRUE
    /\ add_texts_calls = <<>> /\ upserted = <<>> /\ payload = <<>>
    /\ at_pc = "none" /\ at_args = [texts |-> <<>>, metadata |-> <<>>]
    /\ NoOtherCrawl /\ NoRequests /\ NoDedupe /\ NoStream

\* the locals of crawl(start_url, cfg) after lines 172-179
CrawlEntered(url, config) ==
    /\ pc = "call"
    /\ start_url = url
    /\ cfg = config
    /\ visited = {}
    /\ queue = << [url |-> url, depth |-> 0] >>
    /\ texts = <<>>
    /\ metas = <<>>
    /\ seen_signatures = {}
    /\ fetchLog = <<>>
    /\ discovered = {}
    /\ sleeps = <<>>

Init ==
    /\ pc = "call"
    /\ start_url \in START_URLS
    /\ cfg \in CONFIGS
    /\ visited = {}
    /\ queue = << [url |-> start_url, depth |-> 0] >>
    /\ texts = <<>>
    /\ metas = <<>>
    /\ seen_signatures = {}
    /\ fetchLog = <<>>
    /\ discovered = {}
    /\ sleeps = <<>>
    /\ AppIdle

(***************************************************************************)
(* WebScraper.crawl                                                        *)
(***************************************************************************)
LoopCond_LE == queue # <<>> /\ Cardinality(visited) <= cfg.max_pages

\* while queue and len(visited) < cfg.max_pages
LoopCond == queue # <<>> /\ Cardinality(visited) < cfg.max_pages

Eligible_NoDepth(url, depth) ==
    /\ url \notin visited
    /\ ~_is_blocked(url, cfg)
    /\ _is_same_domain(start_url, url)

\* the four checks on a dequeued entry: none of them says continue
Eligible(url, depth) ==
    /\ url \notin visited
    /\ ~(depth > cfg.max_depth)
    /\ ~_is_blocked(url, cfg)
    /\ _is_same_domain(start_url, url)

\* requests can answer only http(s) URLs that name a host; for any other URL
\* requests.get raises (MissingSchema, InvalidSchema, InvalidURL)
Fetchable(url) ==
    /\ ~UrlRaises(url)
    /\ urlparse(url).scheme \in {"http", "https"}
    /\ urlparse(url).netloc # ""

Anchors_Sanitized(html) ==
    SelectSeq(html, LAMBDA n : n.tag = "a" /\ n.href # "" /\ ~Decomposed(n))

\* soup.find_all('a', href=True)
Anchors(html) == SelectSeq(html, LAMBDA n : n.tag = "a" /\ n.href # "")

RECURSIVE DiscoverLinks_AppendLeft(_, _, _, _, _, _)
DiscoverLinks_AppendLeft(anchors, i, url, depth, vis, q) ==
    IF i > Len(anchors) THEN q
    ELSE LET href == strip(anchors[i].href) IN
         IF UrlRaises(href) \/ UrlRaises(url) THEN q
         ELSE LET next_url == urljoin(url, href) IN
              IF /\ startswith(next_url, "http")
                 /\ next_url \notin vis
                 /\ ~_is_blocked(next_url, cfg)
                 /\ _is_same_domain(start_url, next_url)
              THEN DiscoverLinks_AppendLeft(anchors, i + 1, url, depth, vis,
                                            <<[url |-> next_url, depth |-> depth + 1]>> \o q)
              ELSE DiscoverLinks_AppendLeft(anchors, i + 1, url, depth, vis, q)

RECURSIVE DiscoverLinks_AnyDomain(_, _, _, _, _, _)
DiscoverLinks_AnyDomain(anchors, i, url, depth, vis, q) ==
    IF i > Len(anchors) THEN q
    ELSE LET href == strip(anchors[i].href) IN
         IF UrlRaises(href) \/ UrlRaises(url) THEN q
         ELSE LET next_url == urljoin(url, href) IN
              IF /\ startswith(next_url, "http")
                 /\ next_url \notin vis
                 /\ ~_is_blocked(next_url, cfg)
              THEN DiscoverLinks_AnyDomain(anchors, i + 1, url, depth, vis,
                                           Append(q, [url |-> next_url, depth |-> depth + 1]))
              ELSE DiscoverLinks_AnyDomain(anchors, i + 1, url, depth, vis, q)

\* the for loop of link discovery over anchors[i..]: the queue afterwards.
\* An exception of urljoin ends the loop (except Exception: pass).
RECURSIVE DiscoverLinks(_, _, _, _, _, _)
DiscoverLinks(anchors, i, url, depth, vis, q) ==
    IF i > Len(anchors) THEN q
    ELSE LET href == strip(anchors[i].href) IN
         IF UrlRaises(href) \/ UrlRaises(url) THEN q
         ELSE LET next_url == urljoin(url, href) IN
              IF /\ startswith(next_url, "http")
                 /\ next_url \notin vis
                 /\ ~_is_blocked(next_url, cfg)
                 /\ _is_same_domain(start_url, next_url)
              THEN DiscoverLinks(anchors, i + 1, url, depth, vis,
                                 Append(q, [url |-> next_url, depth |-> depth + 1]))
              ELSE DiscoverLinks(anchors, i + 1, url, depth, vis, q)

\* texts longer than this are kept
CONTENT_FLOOR == 50

Accepted_GE(cleaned_text) == cleaned_text # "" /\ Len(cleaned_text) >= CONTENT_FLOOR

\* if cleaned_text and len(cleaned_text) > 50
Accepted(cleaned_text) == cleaned_text # "" /\ Len(cleaned_text) > CONTENT_FLOOR

\* lines 172-179: the locals are set up; base_domain = urlparse(start_url).netloc
Start ==
    /\ pc = "call" /\ ~UrlRaises(start_url)
    /\ pc' = "loop"
    /\ UNCHANGED <<start_url, cfg, visited, queue, texts, metas, seen_signatures,
                   fetchLog, discovered, sleeps>>
    /\ UNCHANGED appVars

\* urlparse(start_url) raises ValueError, which crawl does not catch
StartRaises ==
    /\ pc = "call" /\ UrlRaises(start_url)
    /\ pc' = "raised"
    /\ UNCHANGED <<start_url, cfg, visited, queue, texts, metas, seen_signatures,
                   fetchLog, discovered, sleeps>>
    /\ UNCHANGED appVars

Skip_Requeue ==
    /\ pc = "loop" /\ LoopCond
    /\ ~Eligible(Head(queue).url, Head(queue).depth)
    /\ queue' = Append(Tail(queue), Head(queue))
    /\ UNCHANGED <<pc, start_url, cfg, visited, texts, metas, seen_signatures,
                   fetchLog, discovered, sleeps>>
    /\ UNCHANGED appVars

Skip_MarksVisited ==
    /\ pc = "loop" /\ LoopCond
    /\ ~Eligible(Head(queue).url, Head(queue).depth)
    /\ queue' = Tail(queue)
    /\ visited' = visited \cup {Head(queue).url}
    /\ UNCHANGED <<pc, start_url, cfg, texts, metas, seen_signatures, fetchLog, discovered, sleeps>>
    /\ UNCHANGED appVars

\* an iteration that one of the dequeue-time checks ends
Skip ==
    /\ pc = "loop" /\ LoopCond
    /\ ~Eligible(Head(queue).url, Head(queue).depth)
    /\ queue' = Tail(queue)
    /\ UNCHANGED <<pc, start_url, cfg, visited, texts, metas, seen_signatures,
                   fetchLog, discovered, sleeps>>
    /\ UNCHANGED appVars

FetchFail_Propagates ==
    /\ pc = "loop" /\ LoopCond
    /\ Eligible(Head(queue).url, Head(queue).depth)
    /\ queue' = Tail(queue)
    /\ fetchLog' = Append(fetchLog, [url |-> Head(queue).url, depth |-> Head(queue).depth,
                                     ok |-> FALSE, html |-> <<>>])
    /\ pc' = "raised"
    /\ UNCHANGED <<start_url, cfg, visited, texts, metas, seen_signatures, discovered, sleeps>>
    /\ UNCHANGED appVars

\* an iteration whose _fetch raises
FetchFail ==
    /\ pc = "loop" /\ LoopCond
    /\ Eligible(Head(queue).url, Head(queue).depth)
    /\ queue' = Tail(queue)
    /\ fetchLog' = Append(fetchLog, [url |-> Head(queue).url, depth |-> Head(queue).depth,
                                     ok |-> FALSE, html |-> <<>>])
    /\ UNCHANGED <<pc, start_url, cfg, visited, texts, metas, seen_signatures, discovered, sleeps>>
    /\ UNCHANGED appVars

FetchReturns_MetaAlways(html) ==
    /\ pc = "loop" /\ LoopCond
    /\ Eligible(Head(queue).url, Head(queue).depth)
    /\ Fetchable(Head(queue).url)
    /\ \E cleaned_html \in {_clean_html(html)} :
       \E deduped \in {_dedupe_lines_global(_filter_text(_extract_text(cleaned_html), cfg),
                                            seen_signatures)} :
         LET url      == Head(queue).url
             depth    == Head(queue).depth
             newQueue == DiscoverLinks(Anchors(html), 1, url, depth,
                                       visited \cup {url}, Tail(queue))
         IN  /\ visited' = visited \cup {url}
             /\ seen_signatures' = deduped.seen
             /\ texts' = IF Accepted(deduped.text) THEN Append(texts, deduped.text) ELSE texts
             /\ metas' = Append(metas, [source_url |-> url, cleaned_html |-> cleaned_html])
             /\ queue' = newQueue
             /\ discovered' = discovered \cup
                    { <<url, newQueue[i].url>> : i \in Len(queue)..Len(newQueue) }
             /\ fetchLog' = Append(fetchLog, [url |-> url, depth |-> depth, ok |-> TRUE,
                                              html |-> html])
             /\ sleeps' = Append(sleeps, Len(fetchLog) + 1)
    /\ UNCHANGED <<pc, start_url, cfg>>
    /\ UNCHANGED appVars

\* an iteration whose _fetch returns html
FetchReturns(html) ==
    /\ pc = "loop" /\ LoopCond
    /\ Eligible(Head(queue).url, Head(queue).depth)
    /\ Fetchable(Head(queue).url)
    \* each value is computed once: \E over a singleton binds it
    /\ \E cleaned_html \in {_clean_html(html)} :
       \E deduped \in {_dedupe_lines_global(_filter_text(_extract_text(cleaned_html), cfg),
                                            seen_signatures)} :
         LET url      == Head(queue).url
             depth    == Head(queue).depth
             newQueue == DiscoverLinks(Anchors(html), 1, url, depth,
                                       visited \cup {url}, Tail(queue))
         IN  /\ visited' = visited \cup {url}
             /\ seen_signatures' = deduped.seen
             /\ IF Accepted(deduped.text)
                THEN /\ texts' = Append(texts, deduped.text)
                     /\ metas' = Append(metas, [source_url |-> url,
                                                cleaned_html |-> cleaned_html])
                ELSE UNCHANGED <<texts, metas>>
             /\ queue' = newQueue
             /\ discovered' = discovered \cup
                    { <<url, newQueue[i].url>> : i \in Len(queue)..Len(newQueue) }
             /\ fetchLog' = Append(fetchLog, [url |-> url, depth |-> depth, ok |-> TRUE,
                                              html |-> html])
             \* line 218: time.sleep(cfg.delay_seconds)
             /\ sleeps' = Append(sleeps, Len(fetchLog) + 1)
    /\ UNCHANGED <<pc, start_url, cfg>>
    /\ UNCHANGED appVars

\* the web answers the request with one of the documents of DOCS
FetchOk == \E html \in DOCS : FetchReturns(html)

\* the loop condition is false: return texts, metadata, list(visited)
Return ==
    /\ pc = "loop" /\ ~LoopCond
    /\ pc' = "done"
    /\ UNCHANGED <<start_url, cfg, visited, queue, texts, metas, seen_signatures,
                   fetchLog, discovered, sleeps>>
    /\ UNCHANGED appVars

Next == Start \/ StartRaises \/ Skip \/ FetchFail \/ FetchOk \/ Return

Spec == Init /\ [][Next]_vars

\* the loop is a sequential program: it takes its next step
LiveSpec == Spec /\ WF_vars(Next)

(***************************************************************************)
(* Properties of the crawl.                                                *)
(***************************************************************************)
Urls(seq) == { seq[i].url : i \in 1..Len(seq) }

\* the URLs of the PageResults
ResultUrls == { metas[i].source_url : i \in 1..Len(metas) }

\* the links discovered on the pages of S
Linked(S) == { e[2] : e \in { d \in discovered : d[1] \in S } }

\* the URLs at the end of a chain of exactly k discovered links from the start URL
RECURSIVE Reach(_)
Reach(k) == IF k = 0 THEN {start_url} ELSE Linked(Reach(k - 1))

\* the netloc of a URL that urlparse accepts
Netloc(url) == urlparse(url).netloc

\* the absolute URLs the anchors of the i-th fetched page resolve to
ResolvedLinks(i) ==
    { urljoin(fetchLog[i].url, strip(a.href)) :
        a \in { b \in { fetchLog[i].html[j] : j \in 1..Len(fetchLog[i].html) } :
                  b.tag = "a" /\ b.href # "" /\ ~UrlRaises(strip(b.href)) } }

\* C1: page cap.  In every state of a run len(visited) <= max_pages; with
\* max_pages = 0 nothing is fetched and texts, metadata and visited stay empty;
\* with max_pages = 2 visited holds at most the start page and one page linked
\* from it.
C1_PageCap ==
    /\ Cardinality(visited) <= cfg.max_pages
    /\ cfg.max_pages = 0 =>
          fetchLog = <<>> /\ texts = <<>> /\ metas = <<>> /\ visited = {}
    /\ cfg.max_pages = 2 =>
          /\ visited # {} => start_url \in visited
          /\ visited \ {start_url} \subseteq Linked({start_url})
          /\ Cardinality(visited \ {start_url}) <= 1

\* the cap of two pages ended a run that still had entries queued
C1_Witness ==
    /\ pc = "done" /\ cfg.max_pages = 2
    /\ Cardinality(visited) = 2 /\ queue # <<>>

\* C2: every URL is the target of at most one fetch attempt of a run,
\* whether the attempt succeeds or fails.
C2_SingleFetchAttempt ==
    \A i, j \in 1..Len(fetchLog) : fetchLog[i].url = fetchLog[j].url => i = j

\* C3: a URL whose fetch attempt failed is a member of visited.
C3_FailedFetchIsVisited ==
    \A i \in 1..Len(fetchLog) : ~fetchLog[i].ok => fetchLog[i].url \in visited

\* C4: depth bound.  Every fetch attempt, and so every PageResult, is for an
\* entry dequeued with a depth tag <= max_depth; the tag of every entry,
\* fetched or queued, is the length of a chain of discovered links from the
\* start URL.
C4_DepthBound ==
    /\ \A i \in 1..Len(fetchLog) :
          /\ fetchLog[i].depth <= cfg.max_depth
          /\ fetchLog[i].url \in Reach(fetchLog[i].depth)
    /\ \A i \in 1..Len(queue) : queue[i].url \in Reach(queue[i].depth)
    /\ \A u \in ResultUrls : \E i \in 1..Len(fetchLog) : fetchLog[i].ok /\ fetchLog[i].url = u

\* a page at the deepest allowed level was fetched and an entry beyond the
\* bound waits in the queue
C4_Witness ==
    /\ cfg.max_depth >= 1
    /\ \E i \in 1..Len(fetchLog) : fetchLog[i].ok /\ fetchLog[i].depth = cfg.max_depth
    /\ \E i \in 1..Len(queue) : queue[i].depth > cfg.max_depth

\* C5: same-domain containment.  Every URL visited, fetched or carried by a
\* PageResult has exactly the start URL's netloc.
C5_SameDomain ==
    \A u \in visited \cup ResultUrls \cup Urls(fetchLog) :
        ~UrlRaises(u) /\ Netloc(u) = Netloc(start_url)

\* a run ended after fetching a page with a link to a netloc that differs
\* from the start URL's only by case
C5_Witness ==
    /\ pc = "done"
    /\ \E i \in 1..Len(fetchLog) :
          /\ fetchLog[i].ok
          /\ \E u \in ResolvedLinks(i) :
                /\ Netloc(u) # Netloc(start_url)
                /\ lower(Netloc(u)) = lower(Netloc(start_url))

\* C6: blocklist exclusion.  A URL matching a built-in blocked pattern or a
\* pattern of config.exclude_url_patterns is never fetched, never visited and
\* never the URL of a PageResult; the only queue entry that can match is the
\* initial entry of the start URL.
C6_BlocklistExclusion ==
    LET blocked(u) == SearchAny(BLOCKED_PATTERNS \o cfg.exclude_url_patterns, u)
    IN  /\ \A u \in visited \cup ResultUrls \cup Urls(fetchLog) : ~blocked(u)
        /\ \A i \in 1..Len(queue) :
              blocked(queue[i].url) => queue[i] = [url |-> start_url, depth |-> 0]

\* a run ended after fetching a page with a link the built-in list blocks and
\* a link config.exclude_url_patterns blocks
C6_Witness ==
    /\ pc = "done"
    /\ \E i \in 1..Len(fetchLog) :
          /\ fetchLog[i].ok
          /\ \E u \in ResolvedLinks(i) : SearchAny(BLOCKED_PATTERNS, u)
          /\ \E u \in ResolvedLinks(i) :
                /\ ~SearchAny(BLOCKED_PATTERNS, u)
                /\ SearchAny(cfg.exclude_url_patterns, u)
\* the sentence fragments of a text: its pieces between ". "
Fragments(text) == split(text, ". ")

FragmentSet(text) == { Fragments(text)[p] : p \in 1..Len(Fragments(text)) }

\* the fragments of length >= 30 of the page fetched by the i-th call, trimmed,
\* in page order: what its filtered text offers to the deduplicator
PageFragments(i) ==
    LET raws  == Fragments(_filter_text(_extract_text(_clean_html(fetchLog[i].html)), cfg))
        lines == [p \in 1..Len(raws) |-> strip(raws[p])]
    IN  SelectSeq(lines, LAMBDA ln : Len(ln) >= MIN_FRAGMENT_LEN)

\* PageFragments of every call (none for a call that raised)
AllPageFragments ==
    [i \in 1..Len(fetchLog) |-> IF fetchLog[i].ok THEN PageFragments(i) ELSE <<>>]

\* the fragments of the PageResult of the page of the i-th call (none when
\* the page has no PageResult)
ResultFragments(i) ==
    UNION { FragmentSet(texts[k]) :
              k \in { n \in 1..Len(metas) : metas[n].source_url = fetchLog[i].url } }

AllResultFragments == [i \in 1..Len(fetchLog) |-> ResultFragments(i)]

Range(seq) == { seq[p] : p \in 1..Len(seq) }

\* the successful fetches
Fetched == { i \in 1..Len(fetchLog) : fetchLog[i].ok }

\* the page of the i-th call has a PageResult
HasResult(i) == fetchLog[i].url \in ResultUrls

\* with pf = AllPageFragments (the formulas below bind it once per state): i
\* is the first fetched page that contains f, and the later page j contains it too
SharedFirstAt(pf, i, j, f) ==
    /\ i < j
    /\ f \in Range(pf[i]) /\ f \in Range(pf[j])
    /\ \A h \in 1..(i - 1) : f \notin Range(pf[h])

\* with pf = AllPageFragments: no differently written fragment with the
\* signature of f was processed before the first occurrence of f on page i
SignatureIsNew(pf, i, f) ==
    /\ \A h \in 1..(i - 1) : \A g \in Range(pf[h]) : signature(g) # signature(f)
    /\ \A p, q \in 1..Len(pf[i]) :
          p < q /\ pf[i][q] = f /\ pf[i][p] # f => signature(pf[i][p]) # signature(f)

\* C7 as claimed: of two pages sharing a sentence fragment of length >= 30, the
\* first-visited page's PageResult retains it and no later page's PageResult
\* contains it.
C7_FirstWins ==
    \A pf \in {AllPageFragments} : \A rf \in {AllResultFragments} :
        \A i, j \in Fetched : \A f \in Range(pf[i]) :
            SharedFirstAt(pf, i, j, f) => f \in rf[i] /\ f \notin rf[j]

\* C7 as amended: no later page's PageResult contains the shared fragment; the
\* first-visited page's PageResult retains it when that page produced a
\* PageResult and the fragment's signature had not been recorded before it.
C7_FirstWinsIfKept ==
    \A pf \in {AllPageFragments} : \A rf \in {AllResultFragments} :
        \A i, j \in Fetched : \A f \in Range(pf[i]) :
            SharedFirstAt(pf, i, j, f) =>
                /\ f \notin rf[j]
                /\ HasResult(i) /\ SignatureIsNew(pf, i, f) => f \in rf[i]

\* two pages share a fragment, both have a PageResult, and the first one's
\* holds the fragment
C7_Witness ==
    \E pf \in {AllPageFragments} : \E rf \in {AllResultFragments} :
        \E i, j \in Fetched : \E f \in Range(pf[i]) :
            /\ SharedFirstAt(pf, i, j, f)
            /\ HasResult(i) /\ HasResult(j)
            /\ f \in rf[i] /\ f \notin rf[j]

\* the positions (k, p) of the fragments of the PageResult texts
ResultFragmentPositions ==
    { <<k, p>> \in (1..Len(texts)) \X (1..SetMax({0} \cup { Len(Fragments(texts[k])) : k \in 1..Len(texts) })) :
        p <= Len(Fragments(texts[k])) }

\* C8: signature uniqueness.  The fragments of the PageResult texts have
\* pairwise distinct signatures, across and within PageResults, and every one
\* of these signatures is in seen_signatures.
C8_SignaturesUnique ==
    /\ \A x, y \in ResultFragmentPositions :
          signature(Fragments(texts[x[1]])[x[2]]) = signature(Fragments(texts[y[1]])[y[2]])
              => x = y
    /\ \A x \in ResultFragmentPositions :
          signature(Fragments(texts[x[1]])[x[2]]) \in seen_signatures

\* two PageResults exist, and the later one lost a fragment of its page to
\* the deduplicator
C8_Witness ==
    /\ Len(texts) >= 2
    /\ \E j \in Fetched :
          /\ metas[Len(metas)].source_url = fetchLog[j].url
          /\ \E f \in Range(PageFragments(j)) : f \notin ResultFragments(j)
\* s is a prefix of t
IsPrefix(s, t) == Len(s) <= Len(t) /\ SubSeq(t, 1, Len(s)) = s

\* the step is an iteration whose _fetch raised
FetchRaisedStep ==
    Len(fetchLog') = Len(fetchLog) + 1 /\ ~fetchLog'[Len(fetchLog')].ok

\* C9: fetch-failure resilience.  A step in which _fetch raises leaves the run
\* in its loop with the rest of the queue still to process and the PageResults
\* untouched; no step removes or changes a PageResult; and crawl raises only
\* before its first fetch.
C9_FetchFailureResilience ==
    [][ /\ FetchRaisedStep =>
              /\ pc' = "loop"
              /\ queue' = Tail(queue)
              /\ texts' = texts /\ metas' = metas
        /\ IsPrefix(texts, texts') /\ IsPrefix(metas, metas')
        /\ pc' = "raised" => fetchLog' = <<>> ]_vars

\* a run returned the start page's PageResult after a later fetch had raised
\* and a fetch after that had succeeded
C9_Witness ==
    /\ pc = "done"
    /\ Len(fetchLog) >= 3
    /\ fetchLog[1].ok /\ ~fetchLog[2].ok /\ fetchLog[3].ok
    /\ texts # <<>> /\ metas[1].source_url = start_url

\* C10: termination.  The crawl eventually stops, and when its loop has
\* stopped the queue is empty or len(visited) = max_pages.
C10_Termination ==
    /\ <>(pc \in {"done", "raised"})
    /\ [](pc = "done" => queue = <<>> \/ Cardinality(visited) = cfg.max_pages)

\* a run over pages that link to each other and to themselves ended by the
\* page cap after a fetch had failed
C10_Witness ==
    /\ pc = "done" /\ queue # <<>> /\ Cardinality(visited) = cfg.max_pages
    /\ \E i \in 1..Len(fetchLog) : ~fetchLog[i].ok
    /\ \E i \in Fetched : fetchLog[i].url \in ResolvedLinks(i)

(***************************************************************************)
(* Properties of the frontier.                                             *)
(***************************************************************************)
\* the absolute URLs of the anchors of html, a page fetched from url, in
\* document order, up to the first href that urljoin rejects
LinksInDocumentOrder(html, url) ==
    LET anchors == Anchors(html)
        bad     == { k \in 1..Len(anchors) : UrlRaises(strip(anchors[k].href)) }
        n       == IF bad = {} THEN Len(anchors) ELSE SetMin(bad) - 1
    IN  [k \in 1..n |-> urljoin(url, strip(anchors[k].href))]

\* s[i..] is a subsequence of t[j..]
RECURSIVE IsSubseq(_, _, _, _)
IsSubseq(s, i, t, j) ==
    IF i > Len(s) THEN TRUE
    ELSE IF j > Len(t) THEN FALSE
    ELSE IF s[i] = t[j] THEN IsSubseq(s, i + 1, t, j + 1)
    ELSE IsSubseq(s, i, t, j + 1)

\* C11: strict FIFO frontier.  Every step that changes the queue removes
\* exactly its head, keeps the other entries in their order, and appends the
\* new entries behind them; the new entries are links of the page just
\* fetched, in document order, one level below that page.
C11_StrictFifo ==
    [][ queue' # queue =>
          /\ queue # <<>>
          /\ Len(queue') >= Len(queue) - 1
          /\ SubSeq(queue', 1, Len(queue) - 1) = Tail(queue)
          /\ LET new == SubSeq(queue', Len(queue), Len(queue'))
             IN  new # <<>> =>
                   /\ Len(fetchLog') = Len(fetchLog) + 1
                   /\ fetchLog'[Len(fetchLog')].ok
                   /\ fetchLog'[Len(fetchLog')].url = Head(queue).url
                   /\ \A k \in 1..Len(new) : new[k].depth = Head(queue).depth + 1
                   /\ IsSubseq([k \in 1..Len(new) |-> new[k].url], 1,
                               LinksInDocumentOrder(fetchLog'[Len(fetchLog')].html,
                                                    Head(queue).url), 1) ]_vars

\* the second page fetched was the first link of the start page, and links
\* of the second page wait behind a link of the start page
C11_Witness ==
    /\ Len(fetchLog) >= 2 /\ fetchLog[1].ok /\ fetchLog[2].ok
    /\ fetchLog[2].url = LinksInDocumentOrder(fetchLog[1].html, fetchLog[1].url)[1]
    /\ \E i, j \in 1..Len(queue) :
          /\ i < j
          /\ <<fetchLog[1].url, queue[i].url>> \in discovered /\ queue[i].depth = 1
          /\ <<fetchLog[2].url, queue[j].url>> \in discovered /\ queue[j].depth = 2

(***************************************************************************)
(* RecursiveCharacterTextSplitter(chunk_size=1100, chunk_overlap=200).     *)
(* The texts of the crawl have no line breaks (_filter_text collapses all  *)
(* white space), so the splitter cuts at spaces: it splits the text before *)
(* every space, keeps the space in front of its piece, merges consecutive  *)
(* pieces while they fit into chunk_size, strips each chunk, and starts    *)
(* the next chunk with the last pieces of the previous one that fit into   *)
(* chunk_overlap.  The model covers texts whose words are shorter than     *)
(* chunk_overlap.                                                          *)
(***************************************************************************)
CHUNK_SIZE == 1100

CHUNK_OVERLAP == 200

\* the positions where a piece starts
PieceStarts(text) == {1} \cup { p \in 2..Len(text) : Ch(text, p) = " " }

\* the last position of the longest run of pieces from position s on that
\* fits into chunk_size
ChunkEnd(text, s) ==
    SetMax({ e \in s..Len(text) :
               /\ e = Len(text) \/ Ch(text, e + 1) = " "
               /\ e - s + 1 <= CHUNK_SIZE })

\* where the chunk after text[s..e] starts: pieces are popped from the front
\* of text[s..e] until what is left fits into chunk_overlap
NextChunkStart(text, s, e) ==
    SetMin({ q \in PieceStarts(text) \cup {e + 1} : q > s /\ e - q + 1 <= CHUNK_OVERLAP })

\* _merge_splits: the chunks of text from position s on
RECURSIVE MergeSplits(_, _)
MergeSplits(text, s) ==
    LET e   == ChunkEnd(text, s)
        doc == strip(SubSeq(text, s, e))
    IN  IF e = Len(text) THEN <<doc>>
        ELSE <<doc>> \o MergeSplits(text, NextChunkStart(text, s, e))

\* text_splitter.split_text(text)
split_text(text) == IF text = "" THEN <<>> ELSE MergeSplits(text, 1)

(***************************************************************************)
(* VectorStore.add_texts.  The embedding service and the index are         *)
(* external: either may fail.  A failure is a record: at "never", at       *)
(* "embed" (embed_documents raises) or at "upsert" with the number of the  *)
(* batch whose upsert raises.  A vector is modelled by its metadata; its   *)
(* random id and its embedding are left out.                               *)
(***************************************************************************)
BATCH_SIZE == 20

NumBatches(n) == (n + BATCH_SIZE - 1) \div BATCH_SIZE

NeverFails == [at |-> "never", batch |-> 0]

\* the ways a call with these texts can fail
Failures(chunk_texts) ==
    IF chunk_texts = <<>> THEN {}
    ELSE {[at |-> "embed", batch |-> 0]}
            \cup { [at |-> "upsert", batch |-> k] : k \in 1..NumBatches(Len(chunk_texts)) }

\* {**base_meta, "text": text}
SafeMeta(base_meta, text) ==
    [f \in DOMAIN base_meta \cup {"text"} |-> IF f = "text" THEN text ELSE base_meta[f]]

\* lines 49-58: one vector per text; metadata None is the empty sequence
Vectors(chunk_texts, metadata) ==
    [i \in 1..Len(chunk_texts) |->
        [metadata |-> SafeMeta(IF i <= Len(metadata) THEN metadata[i] ELSE <<>>,
                               chunk_texts[i])]]

\* add_texts(texts, metadata): the vectors it upserts, batch after batch,
\* and whether it raises
add_texts(chunk_texts, metadata, fail) ==
    IF chunk_texts = <<>> THEN [upserted |-> <<>>, raised |-> FALSE]
    ELSE IF fail.at = "embed" THEN [upserted |-> <<>>, raised |-> TRUE]
    ELSE LET vectors == Vectors(chunk_texts, metadata)
             done    == IF fail.at = "upsert"
                        THEN Min((fail.batch - 1) * BATCH_SIZE, Len(vectors))
                        ELSE Len(vectors)
         IN  [upserted |-> SubSeq(vectors, 1, done), raised |-> fail.at = "upsert"]

(***************************************************************************)
(* WebScraper.scrape_and_index                                             *)
(***************************************************************************)
S_LAB   == "Our first report tells how the assistants are built and how they are measured in the laboratory, part"
S_FIELD == "The second report explains where the robots are deployed and which customers rely on them every day, part"

\* two long sentences that differ from part to part
Part(k) == S_LAB \o " " \o k \o ". " \o S_FIELD \o " " \o k \o "."

\* a page whose text is longer than chunk_size
DOC_LONG ==
    << El("p", <<>>, "", "",
          Part("one") \o " " \o Part("two") \o " " \o Part("three") \o " "
              \o Part("four") \o " " \o Part("five") \o " " \o Part("six")),
       El("a", <<>>, "", "/b", "Products") >>

\* the documents the web may serve to a run of scrape_and_index
SAI_DOCS == {DOC_HOME, DOC_LONG, DOC_FEEDBACK}

\* a crawlable start URL, a blocklisted one and one that urlparse rejects
SAI_START_URLS == {"http://a", "http://a/login", "http://[a"}

SAI_CONFIGS ==
    [max_pages : 0..(MaxPagesBound - 1), max_depth : {1},
     exclude_url_patterns : {<<>>}, block_text_patterns : {<<>>}]

\* scrape_and_index(start_url, cfg, index=..., include_text=...) has called
\* self.crawl (line 228)
SaiInit ==
    /\ \E url \in SAI_START_URLS : \E config \in SAI_CONFIGS : CrawlEntered(url, config)
    /\ sai = "crawl"
    /\ index \in BOOLEAN
    /\ include_text \in BOOLEAN
    /\ add_texts_calls = <<>> /\ upserted = <<>> /\ payload = <<>>
    /\ at_pc = "none" /\ at_args = [texts |-> <<>>, metadata |-> <<>>]
    /\ NoOtherCrawl /\ NoRequests /\ NoDedupe /\ NoStream

\* the web answers the request with one of the documents of SAI_DOCS
SaiFetchOk == \E html \in SAI_DOCS : FetchReturns(html)

ChunkMeta_OneBased(source_url, n) ==
    [idx \in 1..n |-> [source_url |-> source_url, chunk |-> idx]]

\* lines 236-242 for one page: the metadata of its n chunks
ChunkMeta(source_url, n) ==
    [idx \in 1..n |-> [source_url |-> source_url, chunk |-> idx - 1]]

\* lines 232-242: chunk_texts and chunk_meta of the pages k, k+1, ... of
\* zip(result['texts'], result['metadata'])
RECURSIVE ChunkPages(_, _, _)
ChunkPages(ts, ms, k) ==
    IF k > Min(Len(ts), Len(ms)) THEN [chunk_texts |-> <<>>, chunk_meta |-> <<>>]
    ELSE LET chunks == split_text(ts[k])
             rest   == ChunkPages(ts, ms, k + 1)
         IN  [chunk_texts |-> chunks \o rest.chunk_texts,
              chunk_meta  |-> ChunkMeta(ms[k].source_url, Len(chunks)) \o rest.chunk_meta]

ShouldIndex_Always == texts # <<>>

\* if index and result['texts']
ShouldIndex == index /\ texts # <<>>

\* lines 246-252
Items ==
    IF include_text
    THEN [k \in 1..Min(Len(texts), Len(metas)) |->
            [url |-> metas[k].source_url, text |-> texts[k], length |-> Len(texts[k]),
             html |-> metas[k].cleaned_html]]
    ELSE <<>>

Payload_CountsVisited ==
    [pages_scraped |-> Cardinality(visited), visited |-> visited, items |-> Items]

\* lines 254-258; list(visited) is modelled by the set
Payload == [pages_scraped |-> Len(texts), visited |-> visited, items |-> Items]

\* self.crawl raised: scrape_and_index does not catch it
SaiCrawlRaised ==
    /\ sai = "crawl" /\ pc = "raised"
    /\ sai' = "raised"
    /\ UNCHANGED <<index, include_text, add_texts_calls, upserted, payload>>
    /\ UNCHANGED <<crawlVars, addTextsVars, concVars, cycleVars, dedupeVars, streamVars>>

\* lines 230-258 when add_texts, if it is called, returns
SaiReturns ==
    /\ sai = "crawl" /\ pc = "done"
    /\ IF ShouldIndex
       THEN LET c == ChunkPages(texts, metas, 1) IN
            IF c.chunk_texts # <<>>
            THEN /\ add_texts_calls' = Append(add_texts_calls,
                                              [texts |-> c.chunk_texts, metadata |-> c.chunk_meta])
                 /\ upserted' = upserted \o add_texts(c.chunk_texts, c.chunk_meta, NeverFails).upserted
            ELSE UNCHANGED <<add_texts_calls, upserted>>
       ELSE UNCHANGED <<add_texts_calls, upserted>>
    /\ payload' = <<Payload>>
    /\ sai' = "returned"
    /\ UNCHANGED <<index, include_text>>
    /\ UNCHANGED <<crawlVars, addTextsVars, concVars, cycleVars, dedupeVars, streamVars>>

\* lines 230-244 when add_texts raises: scrape_and_index does not catch it
SaiIndexRaises ==
    /\ sai = "crawl" /\ pc = "done"
    /\ ShouldIndex
    /\ LET c == ChunkPages(texts, metas, 1) IN
         \E fail \in Failures(c.chunk_texts) :
            /\ add_texts_calls' = Append(add_texts_calls,
                                         [texts |-> c.chunk_texts, metadata |-> c.chunk_meta])
            /\ upserted' = upserted \o add_texts(c.chunk_texts, c.chunk_meta, fail).upserted
    /\ sai' = "raised"
    /\ UNCHANGED <<index, include_text, payload>>
    /\ UNCHANGED <<crawlVars, addTextsVars, concVars, cycleVars, dedupeVars, streamVars>>

SaiNext ==
    \/ Start \/ StartRaises \/ Skip \/ FetchFail \/ SaiFetchOk \/ Return
    \/ SaiCrawlRaised \/ SaiReturns \/ SaiIndexRaises

SaiSpec == SaiInit /\ [][SaiNext]_vars

(***************************************************************************)
(* Properties of scrape_and_index.                                         *)
(***************************************************************************)
\* C12: opt-in, single-batch indexing.  add_texts is called only when index
\* is true, at most once per invocation, only after crawl has returned, and
\* not at all when the crawl produced no PageResult.
C12_OptInSingleBatch ==
    /\ ~index => add_texts_calls = <<>>
    /\ Len(add_texts_calls) <= 1
    /\ add_texts_calls # <<>> => pc = "done" /\ sai # "crawl"
    /\ texts = <<>> => add_texts_calls = <<>>

\* an invocation with index true returned after its one call of add_texts
C12_Witness ==
    /\ sai = "returned" /\ index
    /\ Len(add_texts_calls) = 1
    /\ Len(texts) >= 2

\* the source_url of the entries of md whose chunk is 0, in order
FirstChunkUrls(md) ==
    LET firsts == SelectSeq(md, LAMBDA m : m.chunk = 0)
    IN  [i \in 1..Len(firsts) |-> firsts[i].source_url]

\* C13: chunk hand-off shape.  In every call of add_texts the texts and the
\* metadata are parallel sequences of equal length; every metadata mapping
\* has exactly the keys source_url and chunk; the chunks of a page are
\* numbered 0, 1, ..., n-1 in order under that page's URL; and the pages
\* appear in PageResult order.
C13_ChunkShape ==
    \A c \in Range(add_texts_calls) :
    \A chunks \in {[k \in 1..Len(texts) |-> split_text(texts[k])]} :
        LET md == c.metadata
            tx == c.texts
        IN  /\ Len(tx) = Len(md)
            /\ \A i \in 1..Len(md) : DOMAIN md[i] = {"source_url", "chunk"}
            /\ md # <<>> => md[1].chunk = 0
            /\ \A i \in 2..Len(md) :
                  \/ md[i].source_url = md[i - 1].source_url /\ md[i].chunk = md[i - 1].chunk + 1
                  \/ md[i].source_url # md[i - 1].source_url /\ md[i].chunk = 0
            /\ FirstChunkUrls(md) = [k \in 1..Len(metas) |-> metas[k].source_url]
            /\ \A k \in 1..Len(metas) :
                  /\ Cardinality({ i \in 1..Len(md) : md[i].source_url = metas[k].source_url })
                        = Len(chunks[k])
                  /\ \A i \in 1..Len(md) :
                        md[i].source_url = metas[k].source_url =>
                            /\ md[i].chunk + 1 <= Len(chunks[k])
                            /\ tx[i] = chunks[k][md[i].chunk + 1]

\* add_texts received the chunks of two pages, one of them in several chunks
C13_Witness ==
    \E c \in Range(add_texts_calls) :
        /\ \E i \in 1..Len(c.metadata) : c.metadata[i].chunk >= 1
        /\ \E i, j \in 1..Len(c.metadata) :
              c.metadata[i].source_url # c.metadata[j].source_url

\* C14: result payload.  Whenever scrape_and_index has returned, pages_scraped
\* is the number of PageResults and visited the visited set of the run; with
\* include_text the items are the PageResults in order, each with its url, its
\* text and the length of that text, and without include_text there are no
\* items; nothing in the payload depends on index.  There is no payload
\* unless scrape_and_index returned.
C14_Payload ==
    /\ sai # "returned" => payload = <<>>
    /\ sai = "returned" =>
          /\ Len(payload) = 1
          /\ payload[1].pages_scraped = Len(texts)
          /\ payload[1].visited = visited
          /\ ~include_text => payload[1].items = <<>>
          /\ include_text =>
                /\ Len(payload[1].items) = Len(texts)
                /\ \A k \in 1..Len(texts) :
                      /\ payload[1].items[k].url = metas[k].source_url
                      /\ payload[1].items[k].text = texts[k]
                      /\ payload[1].items[k].length = Len(texts[k])
                      /\ payload[1].items[k].html = metas[k].cleaned_html

\* an indexing invocation returned items for fewer pages than it visited
C14_Witness ==
    /\ sai = "returned" /\ index /\ include_text
    /\ payload[1].items # <<>>
    /\ Cardinality(visited) > Len(texts)

(***************************************************************************)
(* VectorStore.add_texts called with the chunks of a crawl: texts and      *)
(* metadata as scrape_and_index builds them for one page cut into n        *)
(* chunks, or texts without metadata.                                      *)
(***************************************************************************)
ChunkTexts(n) == [i \in 1..n |-> "chunk " \o ToString(i - 1)]

ADD_TEXTS_ARGS ==
    { [texts |-> ChunkTexts(n), metadata |-> ChunkMeta("http://a", n)] : n \in 0..MaxChunks }
        \cup { [texts |-> ChunkTexts(n), metadata |-> <<>>] : n \in 0..MaxChunks }

\* no crawl takes part: its variables rest at the entry of a crawl that is
\* never run
NoCrawl ==
    CrawlEntered("http://a", [max_pages |-> 0, max_depth |-> 0,
                              exclude_url_patterns |-> <<>>, block_text_patterns |-> <<>>])

AddTextsInit ==
    /\ NoCrawl
    /\ sai = "none" /\ index = FALSE /\ include_text = TRUE
    /\ add_texts_calls = <<>> /\ upserted = <<>> /\ payload = <<>>
    /\ at_pc = "call"
    /\ at_args \in ADD_TEXTS_ARGS
    /\ NoOtherCrawl /\ NoRequests /\ NoDedupe /\ NoStream

\* lines 44-65 when nothing raises
AddTextsReturns ==
    /\ at_pc = "call"
    /\ upserted' = upserted \o add_texts(at_args.texts, at_args.metadata, NeverFails).upserted
    /\ at_pc' = "returned"
    /\ UNCHANGED <<at_args, crawlVars, sai, index, include_text, add_texts_calls, payload>>
    /\ UNCHANGED <<concVars, cycleVars, dedupeVars, streamVars>>

\* lines 44-65 when embed_documents or one of the upserts raises
AddTextsRaises ==
    /\ at_pc = "call"
    /\ \E fail \in Failures(at_args.texts) :
         upserted' = upserted \o add_texts(at_args.texts, at_args.metadata, fail).upserted
    /\ at_pc' = "raised"
    /\ UNCHANGED <<at_args, crawlVars, sai, index, include_text, add_texts_calls, payload>>
    /\ UNCHANGED <<concVars, cycleVars, dedupeVars, streamVars>>

AddTextsNext == AddTextsReturns \/ AddTextsRaises

AddTextsSpec == AddTextsInit /\ [][AddTextsNext]_vars

\* C15: indexing failure.  A failure of add_texts fails scrape_and_index as a
\* whole, without a result payload, and the commit is all-or-nothing: after a
\* call of add_texts that raised, none of its chunks is in the index.
C15_AllOrNothing ==
    /\ at_pc = "raised" => upserted = <<>>
    /\ sai = "raised" => payload = <<>>

(***************************************************************************)
(* Properties of crawl: start URL, content floor, skipped entries.         *)
(***************************************************************************)
\* the URL cannot be parsed, or has no scheme, or has no network location
Unparseable(url) ==
    \/ UrlRaises(url)
    \/ urlparse(url).scheme = ""
    \/ urlparse(url).netloc = ""

\* C16: configuration error.  With an unparseable start URL the crawl fails
\* at once: no fetch is attempted and crawl does not return a result.
C16_ConfigError ==
    Unparseable(start_url) => fetchLog = <<>> /\ pc # "done"

\* the text of a page after sanitize, extract, line filter and dedupe, for
\* the signatures seen before the page
PipelineText(html, seen) ==
    _dedupe_lines_global(_filter_text(_extract_text(_clean_html(html)), cfg), seen).text

\* the step is an iteration whose _fetch returned
FetchReturnedStep ==
    Len(fetchLog') = Len(fetchLog) + 1 /\ fetchLog'[Len(fetchLog')].ok

\* C17: content floor.  A successfully fetched page adds a PageResult (its
\* text, under its URL) if and only if its text after sanitize, extract, line
\* filter and dedupe is longer than 50 characters; no other step adds one;
\* and a page whose whole extracted text is the line "Feedback" has no
\* PageResult.
C17_ContentFloor ==
    /\ [][ IF FetchReturnedStep
           THEN \A t \in {PipelineText(fetchLog'[Len(fetchLog')].html, seen_signatures)} :
                   IF Len(t) > 50
                   THEN /\ texts' = Append(texts, t)
                        /\ Len(metas') = Len(metas) + 1
                        /\ SubSeq(metas', 1, Len(metas)) = metas
                        /\ metas'[Len(metas')].source_url = fetchLog'[Len(fetchLog')].url
                   ELSE texts' = texts /\ metas' = metas
           ELSE texts' = texts /\ metas' = metas ]_vars
    /\ [](\A i \in Fetched :
             strip(_extract_text(_clean_html(fetchLog[i].html))) = "Feedback" => ~HasResult(i))

\* the start page had a text of exactly 50 characters and got no PageResult,
\* and a page that says nothing but "Feedback" got none either
C17_Witness ==
    /\ Len(fetchLog) >= 2 /\ fetchLog[1].ok /\ fetchLog[2].ok
    /\ Len(PipelineText(fetchLog[1].html, {})) = 50
    /\ strip(_extract_text(_clean_html(fetchLog[2].html))) = "Feedback"
    /\ texts = <<>>

\* the loop is about to dequeue an entry that one of the four checks of
\* lines 183-190 rejects
HeadIsSkipped ==
    /\ pc = "loop" /\ queue # <<>> /\ Cardinality(visited) < cfg.max_pages
    /\ \/ Head(queue).url \in visited
       \/ Head(queue).depth > cfg.max_depth
       \/ SearchAny(BLOCKED_PATTERNS \o cfg.exclude_url_patterns, Head(queue).url)
       \/ ~_is_same_domain(start_url, Head(queue).url)

\* C20: a skip leaves the state unchanged.  The iteration that dequeues an
\* entry already in visited, or deeper than max_depth, or blocklisted, or not
\* same-domain, only removes the entry from the head of the queue: visited,
\* the PageResults, seen_signatures and the rest of the queue stay as they
\* are, no fetch is attempted and no link is enqueued.
C20_SkipFrame ==
    [][ HeadIsSkipped =>
          /\ queue' = Tail(queue)
          /\ visited' = visited
          /\ texts' = texts /\ metas' = metas
          /\ seen_signatures' = seen_signatures
          /\ fetchLog' = fetchLog
          /\ discovered' = discovered
          /\ sleeps' = sleeps
          /\ pc' = "loop" ]_vars

\* the start page links twice to the page fetched second; the second of these
\* entries has been dequeued without a fetch, and the link after it is now
\* at the head of the queue
C20_Witness ==
    /\ pc = "loop"
    /\ Len(fetchLog) = 2 /\ fetchLog[1].ok /\ fetchLog[2].ok
    /\ queue # <<>> /\ queue[1].depth = 1
    /\ \E links \in {LinksInDocumentOrder(fetchLog[1].html, fetchLog[1].url)} :
       \E k1, k2 \in 1..(Len(links) - 1) :
          /\ k1 < k2
          /\ links[k1] = fetchLog[2].url /\ links[k2] = fetchLog[2].url
          /\ queue[1].url = links[k2 + 1]

(***************************************************************************)
(* GET /predefined-answer (app.py).  Flask serves requests on threads; a   *)
(* handler is two steps, next(predefined_cycle) and the response, and the  *)
(* handlers of different requests interleave.  next() of an                *)
(* itertools.cycle is one call into C that holds the interpreter lock, so  *)
(* it is one step.  The answers are cut to their first line.               *)
(***************************************************************************)
PREDEFINED_ANSWERS ==
    << [question |-> "Executive benefits overview",
        answer   |-> "**Executive Onboarding Snapshot**"],
       [question |-> "Raise IT support ticket for Outlook access",
        answer   |-> "**Need Outlook Access?**"],
       [question |-> "GMC members overview",
        answer   |-> "**Group Management Committee (GMC) Snapshot**"] >>

AfterNext_Stuck(i) == i

\* the index of itertools.cycle after next(): it starts over after the last item
AfterNext(i) == (i + 1) % Len(PREDEFINED_ANSWERS)

CycleInit ==
    /\ NoCrawl
    /\ sai = "none" /\ index = FALSE /\ include_text = TRUE
    /\ add_texts_calls = <<>> /\ upserted = <<>> /\ payload = <<>>
    /\ at_pc = "none" /\ at_args = [texts |-> <<>>, metadata |-> <<>>]
    /\ NoOtherCrawl /\ NoDedupe /\ NoStream
    /\ cycle_index = 0
    /\ requests = [r \in 1..MaxRequests |-> [at |-> "sent", answer_payload |-> <<>>,
                                             response |-> <<>>]]
    /\ served = <<>>

\* line 215: answer_payload = next(predefined_cycle)
DrawAnswer(r) ==
    /\ requests[r].at = "sent"
    /\ requests' = [requests EXCEPT ![r].at = "drew",
                                    ![r].answer_payload = PREDEFINED_ANSWERS[cycle_index + 1]]
    /\ cycle_index' = AfterNext(cycle_index)
    /\ served' = Append(served, [request |-> r, item |-> PREDEFINED_ANSWERS[cycle_index + 1]])
    /\ UNCHANGED <<crawlVars, saiVars, addTextsVars, concVars, dedupeVars, streamVars>>

\* line 217: return jsonify(dict(answer_payload)), 200
Respond(r) ==
    /\ requests[r].at = "drew"
    /\ requests' = [requests EXCEPT ![r].at = "responded",
                                    ![r].response = requests[r].answer_payload]
    /\ UNCHANGED <<cycle_index, served>>
    /\ UNCHANGED <<crawlVars, saiVars, addTextsVars, concVars, dedupeVars, streamVars>>

CycleNext == \E r \in 1..MaxRequests : DrawAnswer(r) \/ Respond(r)

CycleSpec == CycleInit /\ [][CycleNext]_vars

\* C19: round-robin predefined answers.  The k-th call of next() since
\* process start (k = 0, 1, 2, ...) draws answer k mod 3, so any three
\* consecutive calls draw three different answers; and every request,
\* whatever the interleaving, is answered with the item its own call drew.
C19_RoundRobin ==
    /\ \A k \in 0..(Len(served) - 1) : served[k + 1].item = PREDEFINED_ANSWERS[(k % 3) + 1]
    /\ \A k \in 1..(Len(served) - 2) :
          Cardinality({served[k].item, served[k + 1].item, served[k + 2].item}) = 3
    /\ \A k \in 1..Len(served) :
          requests[served[k].request].at = "responded" =>
              requests[served[k].request].response = PREDEFINED_ANSWERS[((k - 1) % 3) + 1]
    /\ \A r \in DOMAIN requests :
          requests[r].at # "sent" => \E k \in 1..Len(served) : served[k].request = r
    /\ \A j, k \in 1..Len(served) : served[j].request = served[k].request => j = k

\* four calls came in, the cycle has started over, and the request that drew
\* last was answered before the others
C19_Witness ==
    /\ Len(served) = 4
    /\ served[4].item = PREDEFINED_ANSWERS[1]
    /\ requests[served[4].request].at = "responded"
    /\ \A k \in 1..3 : requests[served[k].request].at = "drew"

(***************************************************************************)
(* Several invocations of crawl on the one WebScraper of app.py.  Flask    *)
(* serves each request on its own thread, so two invocations can run       *)
(* interleaved.  The crawl variables hold the locals of the invocation     *)
(* whose thread is running; a switch suspends it and resumes the other.    *)
(* Switches are taken between iterations: an iteration touches nothing but *)
(* its own locals and the web.  Before the two invocations run             *)
(* interleaved, each of them runs alone, which gives the results to        *)
(* compare with.                                                           *)
(***************************************************************************)
\* a web that answers every request for a URL the same way
CONC_DOWN == {"http://a/d"}

WEB(url) ==
    CASE url = "http://a"   -> DOC_HOME
      [] url = "http://a/b" -> DOC_B
      [] url = "http://a/c" -> DOC_SHORT
      [] OTHER              -> DOC_FEEDBACK

CONC_INPUTS ==
    { [url |-> "http://a",
       cfg |-> [max_pages |-> MaxPagesBound, max_depth |-> MaxDepthBound,
                exclude_url_patterns |-> <<>>, block_text_patterns |-> <<>>]],
      [url |-> "http://a/b",
       cfg |-> [max_pages |-> MaxPagesBound - 1, max_depth |-> 1,
                exclude_url_patterns |-> <<>>, block_text_patterns |-> <<>>]],
      [url |-> "http://a/c",
       cfg |-> [max_pages |-> MaxPagesBound, max_depth |-> 1,
                exclude_url_patterns |-> <<Lit("/b")>>, block_text_patterns |-> <<>>]] }

\* the locals of the running invocation
Locals ==
    [pc |-> pc, start_url |-> start_url, cfg |-> cfg, visited |-> visited, queue |-> queue,
     texts |-> texts, metas |-> metas, seen_signatures |-> seen_signatures,
     fetchLog |-> fetchLog, discovered |-> discovered, sleeps |-> sleeps]

\* the locals of crawl(in.url, in.cfg) after lines 172-179
EnteredLocals(in) ==
    [pc |-> "call", start_url |-> in.url, cfg |-> in.cfg, visited |-> {},
     queue |-> << [url |-> in.url, depth |-> 0] >>, texts |-> <<>>, metas |-> <<>>,
     seen_signatures |-> {}, fetchLog |-> <<>>, discovered |-> {}, sleeps |-> <<>>]

Resume_SharedSignatures(c) ==
    /\ pc' = c.pc /\ start_url' = c.start_url /\ cfg' = c.cfg
    /\ visited' = c.visited /\ queue' = c.queue
    /\ texts' = c.texts /\ metas' = c.metas
    /\ seen_signatures' = seen_signatures
    /\ fetchLog' = c.fetchLog /\ discovered' = c.discovered /\ sleeps' = c.sleeps

\* the thread of the invocation with the locals c runs next
Resume(c) ==
    /\ pc' = c.pc /\ start_url' = c.start_url /\ cfg' = c.cfg
    /\ visited' = c.visited /\ queue' = c.queue
    /\ texts' = c.texts /\ metas' = c.metas
    /\ seen_signatures' = c.seen_signatures
    /\ fetchLog' = c.fetchLog /\ discovered' = c.discovered /\ sleeps' = c.sleeps

\* line 220: what crawl returns; list(visited) is modelled by the set
Result(c) == [texts |-> c.texts, metadata |-> c.metas, visited |-> c.visited]

ConcInit ==
    /\ inputs \in CONC_INPUTS \X CONC_INPUTS
    /\ CrawlEntered(inputs[1].url, inputs[1].cfg)
    /\ phase = "solo1" /\ running = 1 /\ other = <<>> /\ solo = <<>>
    /\ sai = "none" /\ index = FALSE /\ include_text = TRUE
    /\ add_texts_calls = <<>> /\ upserted = <<>> /\ payload = <<>>
    /\ at_pc = "none" /\ at_args = [texts |-> <<>>, metadata |-> <<>>]
    /\ NoRequests /\ NoDedupe /\ NoStream

ConcFetchFail ==
    /\ pc = "loop" /\ queue # <<>>
    /\ Head(queue).url \in CONC_DOWN \/ ~Fetchable(Head(queue).url)
    /\ FetchFail

ConcFetchOk ==
    /\ pc = "loop" /\ queue # <<>>
    /\ Head(queue).url \notin CONC_DOWN
    /\ FetchReturns(WEB(Head(queue).url))

\* the first invocation returned; the second one is called and runs alone
SecondSolo ==
    /\ phase = "solo1" /\ pc = "done"
    /\ solo' = Append(solo, Result(Locals))
    /\ Resume(EnteredLocals(inputs[2]))
    /\ phase' = "solo2" /\ running' = 2
    /\ UNCHANGED <<inputs, other, saiVars, addTextsVars, cycleVars, dedupeVars, streamVars>>

\* the second invocation returned; now both are called again, by two threads
Concurrent ==
    /\ phase = "solo2" /\ pc = "done"
    /\ solo' = Append(solo, Result(Locals))
    /\ Resume(EnteredLocals(inputs[1]))
    /\ other' = EnteredLocals(inputs[2])
    /\ phase' = "conc" /\ running' = 1
    /\ UNCHANGED <<inputs, saiVars, addTextsVars, cycleVars, dedupeVars, streamVars>>

\* the running thread is suspended and the other one resumed
Switch ==
    /\ phase = "conc"
    /\ Resume(other)
    /\ other' = Locals
    /\ running' = 3 - running
    /\ UNCHANGED <<phase, inputs, solo, saiVars, addTextsVars, cycleVars, dedupeVars, streamVars>>

ConcNext ==
    \/ Start \/ Skip \/ ConcFetchFail \/ ConcFetchOk \/ Return
    \/ SecondSolo \/ Concurrent \/ Switch

ConcSpec == ConcInit /\ [][ConcNext]_vars

\* C18: concurrent-run isolation.  Each of two invocations that run
\* interleaved on the same WebScraper returns exactly what it returned when
\* it ran alone against the same web, although the other invocation, and the
\* invocations that finished before, recorded signatures of sentences of its
\* pages; and an invocation run alone after another one with the same
\* arguments returns the same result.
C18_Isolation ==
    /\ phase = "conc" /\ pc = "done" => Result(Locals) = solo[running]
    /\ phase = "conc" /\ other.pc = "done" => Result(other) = solo[3 - running]
    /\ Len(solo) = 2 /\ inputs[1] = inputs[2] => solo[1] = solo[2]

\* two invocations with different start URLs are both in their loops, each
\* holds a PageResult, and both PageResults have the same sentence
C18_Witness ==
    /\ phase = "conc" /\ inputs[1].url # inputs[2].url
    /\ pc = "loop" /\ other.pc = "loop"
    /\ texts # <<>> /\ other.texts # <<>>
    /\ FragmentSet(texts[1]) \cap FragmentSet(other.texts[1]) # {}

(***************************************************************************)
(* The sleep between requests.                                             *)
(***************************************************************************)
\* C21: politeness throttle.  Between any two consecutive calls of _fetch of
\* a run there is a call of time.sleep, also when the first of the two
\* raised; and every sleep follows a fetch attempt of its own, so an entry
\* skipped by the dequeue-time checks causes none.
C21_Throttle ==
    /\ \A k \in 1..(Len(fetchLog) - 1) : \E i \in 1..Len(sleeps) : sleeps[i] = k
    /\ \A i \in 1..Len(sleeps) : sleeps[i] \in 1..Len(fetchLog)
    /\ \A i, j \in 1..Len(sleeps) : i # j => sleeps[i] # sleeps[j]

(***************************************************************************)
(* Where the same-domain restriction is applied.                           *)
(***************************************************************************)
\* the entries an iteration appended to the queue
NewEntries == { queue'[i] : i \in Len(queue)..Len(queue') }

\* the links of the page just fetched that resolve to an absolute http(s)
\* URL which is neither visited nor blocklisted, as queue entries one level
\* below the page
OpenLinks ==
    LET links == LinksInDocumentOrder(fetchLog'[Len(fetchLog')].html, Head(queue).url)
    IN  { [url |-> links[k], depth |-> Head(queue).depth + 1] :
            k \in { j \in 1..Len(links) :
                      /\ startswith(links[j], "http")
                      /\ links[j] \notin visited'
                      /\ ~SearchAny(BLOCKED_PATTERNS \o cfg.exclude_url_patterns, links[j]) } }

DEDUPE_RAWS ==
    {S_BUILD, S_BUILD2, "  " \o S_ROBOTS \o " ", "Short one",
     "This sentence has thirty chars", "This sentence has thirty char"}

DEDUPE_TEXTS ==
    { join(". ", rs) : rs \in UNION { [1..n -> DEDUPE_RAWS] : n \in 0..MaxFragments } }

DEDUPE_SEEN == SUBSET {signature(S_BUILD), signature(S_ROBOTS)}

DedupeInit ==
    /\ NoCrawl
    /\ sai = "none" /\ index = FALSE /\ include_text = TRUE
    /\ add_texts_calls = <<>> /\ upserted = <<>> /\ payload = <<>>
    /\ at_pc = "none" /\ at_args = [texts |-> <<>>, metadata |-> <<>>]
    /\ NoOtherCrawl /\ NoRequests /\ NoStream
    /\ dd_pc = "call"
    /\ dd_text \in DEDUPE_TEXTS
    /\ dd_seen \in DEDUPE_SEEN
    /\ dd_old_seen = dd_seen
    /\ dd_returned = <<>>

\* one call of _dedupe_lines_global(dd_text, dd_seen): it mutates the set
\* and returns a string
Dedupe ==
    /\ dd_pc \in {"call", "once"}
    /\ \E r \in {_dedupe_lines_global(dd_text, dd_seen)} :
          /\ dd_seen' = r.seen
          /\ dd_returned' = Append(dd_returned, r.text)
    /\ dd_pc' = IF dd_pc = "call" THEN "once" ELSE "twice"
    /\ UNCHANGED <<dd_text, dd_old_seen>>
    /\ UNCHANGED <<crawlVars, saiVars, addTextsVars, concVars, cycleVars, streamVars>>

DedupeSpec == DedupeInit /\ [][Dedupe]_vars

\* the trimmed fragments of the '. '-split of a text
TrimmedFragments(text) ==
    LET raws == split(text, ". ") IN [i \in 1..Len(raws) |-> strip(raws[i])]

\* the positions 1..n of the fragments frs that are kept: long enough, with a
\* signature that was not in old and is on no kept fragment before
RECURSIVE KeptPositions(_, _, _)
KeptPositions(frs, old, n) ==
    IF n = 0 THEN {}
    ELSE LET before == KeptPositions(frs, old, n - 1)
         IN  IF /\ Len(frs[n]) >= 30
                /\ signature(frs[n]) \notin old
                /\ \A j \in before : signature(frs[j]) # signature(frs[n])
             THEN before \cup {n}
             ELSE before

\* the elements of seq at the positions K, in their order
RECURSIVE Pick(_, _, _)
Pick(seq, K, i) ==
    IF i > Len(seq) THEN <<>>
    ELSE (IF i \in K THEN <<seq[i]>> ELSE <<>>) \o Pick(seq, K, i + 1)

\* C23: dedupe step.  The call returns, joined by '. ' and in input order,
\* exactly the trimmed fragments of the '. '-split that have 30 characters or
\* more and a signature that was neither in seen before the call nor on an
\* earlier kept fragment; afterwards seen is the old set plus exactly the
\* signatures of the kept fragments, so it only grows; and a second call with
\* the same text returns the empty string and leaves seen as it is.
C23_DedupeStep ==
    dd_pc \in {"once", "twice"} =>
       \A frs \in {TrimmedFragments(dd_text)} :
       \A K \in {KeptPositions(frs, dd_old_seen, Len(frs))} :
          /\ dd_returned[1] = join(". ", Pick(frs, K, 1))
          /\ dd_seen = dd_old_seen \cup { signature(frs[k]) : k \in K }
          /\ dd_old_seen \subseteq dd_seen
          /\ dd_pc = "twice" => dd_returned[2] = ""

\* a text of three fragments was deduplicated twice: its first fragment was
\* kept, the second had the signature of the first, the third was known
\* before the call
C23_Witness ==
    /\ dd_pc = "twice"
    /\ dd_text = join(". ", <<S_BUILD, S_BUILD2, "  " \o S_ROBOTS \o " ">>)
    /\ dd_old_seen = {signature(S_ROBOTS)}
    /\ dd_returned[1] = S_BUILD

(***************************************************************************)
(* Link discovery and what comes before it in the iteration.               *)
(***************************************************************************)
\* the hrefs of all a elements of a fetched document, wherever they sit, up
\* to the first one that urljoin rejects
RawHrefs(html) ==
    LET hrefs == [k \in 1..Len(html) |-> strip(html[k].href)]
        isA   == { k \in 1..Len(html) : html[k].tag = "a" /\ html[k].href # "" }
        bad   == { k \in isA : UrlRaises(hrefs[k]) }
        last  == IF bad = {} THEN Len(html) ELSE SetMin(bad) - 1
    IN  Pick(hrefs, { k \in isA : k <= last }, 1)

\* the document has an a element whose href urljoin rejects
DiscoveryFails(html) ==
    \E k \in 1..Len(html) :
       html[k].tag = "a" /\ html[k].href # "" /\ UrlRaises(strip(html[k].href))

\* C24: link discovery does not depend on content acceptance or on
\* sanitization.  Every iteration whose fetch returned appends to the queue,
\* in document order and one level below the page, the links of the raw
\* HTML (inside nav, header or footer too) that are absolute http(s) URLs,
\* not visited, not blocklisted and same-domain, whether or not the page got
\* a PageResult; an href that cannot be resolved ends the discovery for
\* this page, the links before it stay enqueued, the PageResult of the page
\* stays appended and the run goes on.
C24_DiscoveryIndependent ==
    [][ FetchReturnedStep =>
          \A html \in {fetchLog'[Len(fetchLog')].html} :
          \A links \in {[k \in 1..Len(RawHrefs(html)) |->
                            urljoin(Head(queue).url, RawHrefs(html)[k])]} :
             /\ SubSeq(queue', Len(queue), Len(queue')) =
                  Pick([k \in 1..Len(links) |->
                           [url |-> links[k], depth |-> Head(queue).depth + 1]],
                       { k \in 1..Len(links) :
                           /\ startswith(links[k], "http")
                           /\ links[k] \notin visited'
                           /\ ~SearchAny(BLOCKED_PATTERNS \o cfg.exclude_url_patterns, links[k])
                           /\ ~UrlRaises(links[k])
                           /\ Netloc(links[k]) = Netloc(start_url) }, 1)
             /\ pc' = "loop"
             /\ Len(PipelineText(html, seen_signatures)) > 50 =>
                   /\ Len(texts') = Len(texts) + 1
                   /\ metas'[Len(metas')].source_url = Head(queue).url ]_vars

\* three pages were fetched: one without a PageResult that contributed a
\* link, one with a link inside its navigation that was enqueued, and one
\* with an href that cannot be resolved, whose PageResult is there
C24_Witness ==
    /\ pc \in {"loop", "done"}
    /\ \E i \in Fetched :
          /\ ~HasResult(i)
          /\ \E d \in discovered : d[1] = fetchLog[i].url
    /\ \E j \in Fetched :
       \E k \in 1..Len(fetchLog[j].html) :
          /\ fetchLog[j].html[k].tag = "a"
          /\ \E a \in 1..Len(fetchLog[j].html[k].anc) : fetchLog[j].html[k].anc[a] = "nav"
          /\ <<fetchLog[j].url, urljoin(fetchLog[j].url, strip(fetchLog[j].html[k].href))>>
                \in discovered
    /\ \E i \in Fetched : DiscoveryFails(fetchLog[i].html) /\ HasResult(i)

(***************************************************************************)
(* The PageResults of a run and the payload made of them.                  *)
(***************************************************************************)
\* C25: PageResult bookkeeping.  texts and metadata have the same length in
\* every state and only grow at their ends, by one entry per step: the text
\* the page just fetched yielded, under the URL of that page.  Every
\* PageResult URL is in visited, no two PageResults have the same URL, and
\* so pages_scraped <= len(visited) <= max_pages, in the crawl and in the
\* payload of scrape_and_index.
C25_Bookkeeping ==
    /\ [][ /\ Len(texts') >= Len(texts) /\ SubSeq(texts', 1, Len(texts)) = texts
           /\ Len(metas') >= Len(metas) /\ SubSeq(metas', 1, Len(metas)) = metas
           /\ texts' # texts \/ metas' # metas =>
                 /\ FetchReturnedStep
                 /\ texts' = Append(texts, PipelineText(fetchLog'[Len(fetchLog')].html,
                                                        seen_signatures))
                 /\ Len(metas') = Len(metas) + 1
                 /\ metas'[Len(metas')].source_url = fetchLog'[Len(fetchLog')].url ]_vars
    /\ [](/\ Len(texts) = Len(metas)
          /\ \A i \in 1..Len(metas) : metas[i].source_url \in visited
          /\ \A i, j \in 1..Len(metas) : i # j => metas[i].source_url # metas[j].source_url
          /\ Len(texts) <= Cardinality(visited)
          /\ Cardinality(visited) <= cfg.max_pages
          /\ \A i \in 1..Len(payload) :
                /\ payload[i].pages_scraped = Len(texts)
                /\ payload[i].pages_scraped <= Cardinality(payload[i].visited)
                /\ Cardinality(payload[i].visited) <= cfg.max_pages)

\* scrape_and_index returned a payload with as many PageResults as max_pages
\* allows, the first for the start URL, after a run in which one call of
\* _fetch brought no PageResult
C25_Witness ==
    /\ sai = "returned" /\ payload # <<>>
    /\ Len(texts) = MaxPagesBound - 1 /\ Cardinality(visited) = cfg.max_pages
    /\ metas[1].source_url = start_url
    /\ Len(fetchLog) > Len(texts)

(***************************************************************************)
(* Breadth-first order.                                                    *)
(***************************************************************************)
\* the depth tag under which the page of a PageResult URL was fetched
FetchDepth(url) ==
    LET i == CHOOSE k \in 1..Len(fetchLog) : fetchLog[k].ok /\ fetchLog[k].url = url
    IN  fetchLog[i].depth

\* C26: breadth-first depth order.  The depth tags of the queue never
\* decrease from head to tail and its tail is at most one level below its
\* head; so the calls of _fetch, and the PageResults, come in non-decreasing
\* depth order, and when the page cap has ended the run, no page was
\* requested below the level of an eligible entry that is still queued and
\* was never requested.
C26_BreadthFirst ==
    /\ \A i, j \in 1..Len(queue) : i < j => queue[i].depth <= queue[j].depth
    /\ queue # <<>> => queue[Len(queue)].depth - queue[1].depth <= 1
    /\ \A i, j \in 1..Len(fetchLog) : i < j => fetchLog[i].depth <= fetchLog[j].depth
    /\ \A i, j \in 1..Len(metas) :
          i < j => FetchDepth(metas[i].source_url) <= FetchDepth(metas[j].source_url)
    /\ pc = "done" /\ queue # <<>> =>
          \A i \in 1..Len(queue) :
             /\ Eligible(queue[i].url, queue[i].depth)
             /\ queue[i].url \notin Urls(fetchLog)
             => \A k \in 1..Len(fetchLog) : fetchLog[k].depth <= queue[i].depth

\* the page cap ended a run that left entries of two levels in the queue,
\* one of them eligible and never requested, after PageResults from two levels
C26_Witness ==
    /\ pc = "done" /\ Cardinality(visited) = cfg.max_pages
    /\ queue # <<>> /\ queue[Len(queue)].depth = queue[1].depth + 1
    /\ Eligible(queue[1].url, queue[1].depth) /\ queue[1].url \notin Urls(fetchLog)
    /\ Len(metas) >= 2
    /\ FetchDepth(metas[1].source_url) < FetchDepth(metas[Len(metas)].source_url)

(***************************************************************************)
(* ChatManager.stream_response (chat_manager.py) and its consumer, the     *)
(* generator sse of /chat/stream (app.py).  A generator runs only while    *)
(* its consumer waits in next(); at a yield it is suspended, and the       *)
(* consumer either resumes it or, when the client has gone, drops it,      *)
(* which raises GeneratorExit at that yield.                               *)
(***************************************************************************)
\* str.rstrip("\n\r")
rstrip_newlines(s) ==
    LET solid == { i \in 1..Len(s) : Ch(s, i) \notin {"\n", "\r"} }
    IN  IF solid = {} THEN "" ELSE SubSeq(s, 1, SetMax(solid))

\* the literal of line 220; its em dash and its ellipsis, which a module
\* cannot contain, are written @ and #
PUNCTUATION == ".,!?;:\"'-@#()[]{}"

\* token.startswith((' ', '\n', '\t')) and token.endswith((' ', '\n', '\t'))
StartsNewWord(token) == token # "" /\ Ch(token, 1) \in {" ", "\n", "\t"}
EndsWord(token) == token # "" /\ Ch(token, Len(token)) \in {" ", "\n", "\t"}

\* lines 174-192: the piece normalize_fragment returns and last_emitted_char
\* after the call; isspace() is membership in SpaceSet, isalnum() in WordSet
\* without the underscore
normalize_fragment(fragment, last) ==
    IF fragment = "" THEN [piece |-> "", last |-> last]
    ELSE LET needs_prefix_space ==
                 /\ Ch(fragment, 1) \notin SpaceSet
                 /\ last # ""
                 /\ last \notin SpaceSet
                 /\ last \notin {"(", "{", "[", "\"", "'"}
                 /\ Ch(fragment, 1) \in WordSet \ {"_"}
             piece    == IF needs_prefix_space THEN " " \o fragment ELSE fragment
             stripped == rstrip_newlines(piece)
         IN  [piece |-> piece,
              last  |-> IF stripped # "" THEN Ch(stripped, Len(stripped)) ELSE last]

\* lines 206-228 for one token that is not empty: the pieces the iteration
\* yields, and buffer and last_emitted_char after it
Iteration(token, buf, last) ==
    IF StartsNewWord(token)
    THEN LET first == normalize_fragment(buf, last)
             after == IF buf # "" THEN first.last ELSE last
             next  == normalize_fragment(token, after)
         IN  [yields |-> (IF buf # "" THEN <<first.piece>> ELSE <<>>) \o <<next.piece>>,
              buffer |-> "", last |-> next.last]
    ELSE IF Contains(PUNCTUATION, strip(token)) \/ EndsWord(token)
    THEN LET n == normalize_fragment(buf \o token, last)
         IN  [yields |-> <<n.piece>>, buffer |-> "", last |-> n.last]
    ELSE [yields |-> <<>>, buffer |-> buf \o token, last |-> last]

QUESTION == "What is version 3.5 of the handbook about?"

\* what chain.invoke would answer
GENERATED == [type |-> "ai", content |-> "An answer generated by chain.invoke."]

retrieve_and_answer_Generates(state) == [messages |-> <<GENERATED>>, generations |-> 1]

\* the node of the graph (lines 68-92): the messages it adds and the number
\* of model generations it makes
retrieve_and_answer(state) ==
    IF state.persist_only THEN [messages |-> <<>>, generations |-> 0]
    ELSE [messages |-> <<GENERATED>>, generations |-> 1]

\* lines 237-241: the argument of the invoke that persists the turn
PersistInput ==
    [messages |-> << [type |-> "human", content |-> QUESTION],
                     [type |-> "ai", content |-> Cat(collected_parts, 1, Len(collected_parts))] >>,
     persist_only |-> TRUE]

\* the contents of the chunks the model may stream: parts of words, words
\* with a space in front or behind, punctuation, a bracket, an empty chunk
TOKENS == {"Hi", " there", "ok ", ".", "5", "(", ""}

LLM_STREAMS == UNION { [1..n -> TOKENS] : n \in 0..MaxTokens }

\* the session is new, or has one turn already
PRIOR_MESSAGES ==
    { <<>>,
      << [type |-> "human", content |-> "Hello"], [type |-> "ai", content |-> "Hi there."] >> }

\* stream_response(QUESTION, session_id) has returned its generator
StreamInit ==
    /\ NoCrawl
    /\ sai = "none" /\ index = FALSE /\ include_text = TRUE
    /\ add_texts_calls = <<>> /\ upserted = <<>> /\ payload = <<>>
    /\ at_pc = "none" /\ at_args = [texts |-> <<>>, metadata |-> <<>>]
    /\ NoOtherCrawl /\ NoRequests /\ NoDedupe
    /\ gen = "created" /\ suspended = TRUE
    /\ messages \in PRIOR_MESSAGES
    /\ prior_messages = messages
    /\ llm_stream \in LLM_STREAMS
    /\ consumed = 0
    /\ collected_parts = <<>> /\ buffer = "" /\ last_emitted_char = ""
    /\ pending = <<>> /\ yielded = <<>>
    /\ generations = 0 /\ persist_raised = FALSE

notStreamVars == <<crawlVars, saiVars, addTextsVars, concVars, cycleVars, dedupeVars>>

\* the consumer asks for the next item; the first time, lines 170-201 run
\* and the model starts to generate
NextItem ==
    /\ suspended /\ gen \in {"created", "loop", "end"}
    /\ suspended' = FALSE
    /\ gen' = IF gen = "created" THEN "loop" ELSE gen
    /\ generations' = IF gen = "created" THEN generations + 1 ELSE generations
    /\ UNCHANGED <<prior_messages, llm_stream, consumed, collected_parts, buffer,
                   last_emitted_char, pending, yielded, messages, persist_raised>>
    /\ UNCHANGED notStreamVars

\* the consumer stops reading: GeneratorExit ends the generator where it is
Close ==
    /\ suspended /\ gen \in {"created", "loop", "end"}
    /\ gen' = "closed"
    /\ suspended' = FALSE
    /\ UNCHANGED <<prior_messages, llm_stream, consumed, collected_parts, buffer,
                   last_emitted_char, pending, yielded, messages, generations,
                   persist_raised>>
    /\ UNCHANGED notStreamVars

\* one iteration of the for loop, up to its first yield
TakeChunk ==
    /\ gen = "loop" /\ ~suspended /\ pending = <<>>
    /\ consumed < Len(llm_stream)
    /\ consumed' = consumed + 1
    /\ LET token == llm_stream[consumed + 1] IN
       IF token = ""
       THEN UNCHANGED <<collected_parts, buffer, last_emitted_char, pending>>
       ELSE \E it \in {Iteration(token, buffer, last_emitted_char)} :
               /\ collected_parts' = Append(collected_parts, token)
               /\ buffer' = it.buffer
               /\ last_emitted_char' = it.last
               /\ pending' = it.yields
    /\ UNCHANGED <<gen, suspended, prior_messages, llm_stream, yielded, messages,
                   generations, persist_raised>>
    /\ UNCHANGED notStreamVars

\* self.llm.stream raises instead of giving the next chunk or ending
StreamRaises ==
    /\ gen = "loop" /\ ~suspended /\ pending = <<>>
    /\ gen' = "raised"
    /\ UNCHANGED <<suspended, prior_messages, llm_stream, consumed, collected_parts, buffer,
                   last_emitted_char, pending, yielded, messages, generations,
                   persist_raised>>
    /\ UNCHANGED notStreamVars

\* a yield of lines 215, 218, 223 or 232
Yield ==
    /\ gen \in {"loop", "end"} /\ ~suspended /\ pending # <<>>
    /\ yielded' = Append(yielded, Head(pending))
    /\ pending' = Tail(pending)
    /\ suspended' = TRUE
    /\ UNCHANGED <<gen, prior_messages, llm_stream, consumed, collected_parts, buffer,
                   last_emitted_char, messages, generations, persist_raised>>
    /\ UNCHANGED notStreamVars

\* the model stream has ended; lines 231-232
LoopEnds ==
    /\ gen = "loop" /\ ~suspended /\ pending = <<>>
    /\ consumed = Len(llm_stream)
    /\ gen' = "end"
    /\ \E n \in {normalize_fragment(buffer, last_emitted_char)} :
          /\ pending' = IF buffer # "" THEN <<n.piece>> ELSE <<>>
          /\ last_emitted_char' = n.last
    /\ UNCHANGED <<suspended, prior_messages, llm_stream, consumed, collected_parts, buffer,
                   yielded, messages, generations, persist_raised>>
    /\ UNCHANGED notStreamVars

\* lines 235-241: self.workflow.invoke persists the turn; the generator ends
Persist ==
    /\ gen = "end" /\ ~suspended /\ pending = <<>>
    /\ \E node \in {retrieve_and_answer(PersistInput)} :
          /\ messages' = messages \o PersistInput.messages \o node.messages
          /\ generations' = generations + node.generations
    /\ gen' = "returned"
    /\ UNCHANGED <<suspended, prior_messages, llm_stream, consumed, collected_parts, buffer,
                   last_emitted_char, pending, yielded, persist_raised>>
    /\ UNCHANGED notStreamVars

\* lines 235-244: self.workflow.invoke raises, before or after the checkpoint
\* was written; except Exception: pass, and the generator ends
PersistRaises ==
    /\ gen = "end" /\ ~suspended /\ pending = <<>>
    /\ persist_raised' = TRUE
    /\ messages' \in {messages, messages \o PersistInput.messages}
    /\ gen' = "returned"
    /\ UNCHANGED <<suspended, prior_messages, llm_stream, consumed, collected_parts, buffer,
                   last_emitted_char, pending, yielded, generations>>
    /\ UNCHANGED notStreamVars

StreamNext ==
    \/ NextItem \/ Close \/ TakeChunk \/ StreamRaises \/ Yield \/ LoopEnds
    \/ Persist \/ PersistRaises

StreamSpec == StreamInit /\ [][StreamNext]_vars

(***************************************************************************)
(* Properties of the streamed answer.                                      *)
(***************************************************************************)
\* the concatenation of a sequence of strings
Concat(parts) == Cat(parts, 1, Len(parts))

\* s without its blanks
Unspaced(s) == Cat([i \in 1..Len(s) |-> IF Ch(s, i) = " " THEN "" ELSE Ch(s, i)], 1, Len(s))

\* the turn stream_response is to persist: the question and the whole answer
Turn ==
    << [type |-> "human", content |-> QUESTION],
       [type |-> "ai", content |-> Concat(llm_stream)] >>

\* C27: stream persistence ordering.  The session's messages change only
\* when the generator has taken every chunk of the model and yielded all of
\* their text, and then by exactly the question and the whole answer; a
\* generator its consumer dropped has persisted nothing; when the persist
\* step raised, the generator still ended normally; and the model was asked
\* to generate once, not again by the persist step.
C27_PersistAfterStream ==
    /\ messages # prior_messages =>
          /\ gen = "returned"
          /\ consumed = Len(llm_stream) /\ pending = <<>>
          /\ Unspaced(Concat(yielded)) = Unspaced(Concat(llm_stream))
          /\ messages = prior_messages \o Turn
    /\ gen \in {"closed", "raised"} => messages = prior_messages
    /\ gen = "returned" /\ ~persist_raised => messages = prior_messages \o Turn
    /\ persist_raised => gen = "returned"
    /\ generations <= 1

\* the turn of an answer of three chunks was persisted in a session that had
\* a turn before; the last chunk came out of the buffer after the stream ended
C27_Witness ==
    /\ gen = "returned" /\ ~persist_raised
    /\ prior_messages # <<>>
    /\ Len(collected_parts) = MaxTokens
    /\ buffer # "" /\ Len(yielded) >= 2
    /\ messages = prior_messages \o Turn

\* C28: streamed text equals stored text.  When the generator has ended,
\* the concatenation of the fragments it yielded is the concatenation of
\* the tokens it received, and this is the answer in the session's history.
C28_StreamedEqualsStored ==
    gen = "returned" =>
       /\ Concat(yielded) = Concat(collected_parts)
       /\ messages # prior_messages => messages[Len(messages)].content = Concat(yielded)

====
